---- MODULE Spec2Model ----
(***************************************************************************)
(* Snake game of samuelmukoti/demo4: the engine (tick state machine,       *)
(* difficulty ramp, food placement, render loop, high-score storage, event *)
(* dispatch), modelled from its latest revision (src/unnamed/part_000,     *)
(* lines 1-551, which extends src/public/snake/game.js with the            *)
(* progressive tick interval), the input adapter                           *)
(* (src/public/snake/controls.js) and the effects module                   *)
(* (src/public/snake/effects.js).                                          *)
(***************************************************************************)
EXTENDS Integers, Sequences, FiniteSets, TLC

VARIABLES
  cellSize,       \* pixel size of one cell
  gridW, gridH,   \* grid dimensions in cells
  snake,          \* sequence of cells, head first
  direction,      \* committed direction
  nextDirection,  \* pending direction (buffer for the next tick)
  food,           \* food cell
  score,
  highScore,
  gameState,      \* "start" | "playing" | "paused" | "gameover"
  lastTickTime,
  currentTickMs,  \* current tick interval
  now,            \* timestamp of the latest paint callback
  attempts,       \* draws made by the latest spawnFood
  emitted,        \* events emitted by the latest handler, in order
  last,           \* the latest handler: [op, dir, tick]
  stored,         \* localStorage entry snakeHighScore as a number (0: no entry)
  storage,        \* "ok" | "quota" (setItem throws) | "disabled" (every access throws)
  listener,       \* handler registered with on(): "none" | "ok" | "throws"
  fxKind,         \* window.SnakeEffects: "absent" | "present" (effects.js) |
                  \* "faulty" (a module whose onEvent and render throw)
  fx,             \* state of the effects module
  controls,       \* TRUE when window.SnakeControls was installed by setupGame
  pendingDir,     \* adapter: direction buffered for the current tick, or Null
  lastDir,        \* adapter: committed direction seen by the latest tickWatcher
  buffered,       \* the direction the adapter buffered since the latest commit, or Null
  rafPending,     \* scheduled invocations of renderLoop
  snap,           \* the snapshot a consumer got from getState()
  failed,         \* the latest handler ended with an uncaught exception
  writes          \* successful storage writes of the latest handler

engine == <<cellSize, gridW, gridH, snake, direction, nextDirection, food, score,
            highScore, gameState, lastTickTime, currentTickMs>>
vars == <<cellSize, gridW, gridH, snake, direction, nextDirection, food, score,
          highScore, gameState, lastTickTime, currentTickMs, now, attempts,
          emitted, last, stored, storage, listener, fxKind, fx, controls,
          pendingDir, lastDir, buffered, rafPending, snap, failed, writes>>

----------------------------------------------------------------------------
(* Configuration *)

CELLS_ACROSS == 20
TICK_MS == 150
TICK_MIN_MS == 60
TICK_STEP_MS == 10
TICK_LEVEL_EVERY == 5
MIN_GRID == 10
MIN_SCREEN_PX == 280

\* effects.js: longest lifetime of a burst and of a trail particle, trail
\* throttle, cap of the frame delta, duration of the gameover shake
BURST_LIFE_MS == 800
TRAIL_LIFE_MS == 360
TRAIL_EVERY_MS == 100
DT_CAP_MS == 200
SHAKE_MS == 650
SHAKE_AMPLITUDE == 9
BURST_COUNT == 18
BURST_LIFE_MIN == 400
TRAIL_LIFE_MIN == 160
TRAIL_PER_SEGMENT == 2
TRAIL_LIMIT == 7
RandomSteps == 4

(* Bounds of the exploration *)

\* number of paint callbacks explored
MaxFrames == 3
\* number of paint callbacks explored in runs to the walls
MaxRunFrames == 12
\* number of paint callbacks explored after a preset score
MaxApiFrames == 1
\* largest score preset through setScore
MaxPreset == 50
\* number of paint callbacks explored with a consumer holding a snapshot
MaxSnapFrames == 2
\* tick intervals of time explored with uneven gaps between paint callbacks
MaxPaceFrames == 3
\* frames of a page load in the exploration of the stored high score
MaxStoreFrames == 21
\* largest score preset in that exploration
MaxStorePreset == 2
\* frames of play with the effects module loaded or not
MaxFxFrames == 13
\* tick intervals of timestamp time given to a game left alone: eleven ticks,
\* each at most 250 ms after the one before
MaxLiveFrames == 19
\* tick intervals of play before the game with effects is left alone, and of
\* timestamp time in all: six more callbacks, each at most 250 ms apart
MaxFadePlay == 3
MaxFadeFrames == 14
\* tick intervals of play with the automatic pauses
MaxAutoFrames == 3
\* tick intervals of paint callbacks in and out of play
MaxIdleFrames == 4
\* tick intervals of play around a resize
MaxShrinkFrames == 3
\* tick intervals of play in the games played to their end
MaxOverFrames == 11
\* tick intervals of play in the exploration of the effects module
MaxEffectFrames == 12
\* frames of play through the input adapter
MaxInputFrames == 3
\* frames of play with event listeners and effects
MaxHookFrames == 12
\* iterations of the food loop followed beyond its cap
Overrun == 2
\* longest path snake, in rows of the grid, besides the snakes that fill the grid
SpawnRows == 8
\* half-width of the explored box around the grid's centre
Stray == 1
\* random food draws are taken within this distance up and left of the grid's centre
FoodReach == 1

\* gaps between two paint callbacks
FrameGaps == {TICK_MS}
\* callbacks three to a tick interval, and further apart than the cap on the
\* elapsed time
FadeGaps == {50, 250}
\* callbacks at the pace of the ticks and three times as fast
LiveGaps == {50, TICK_MS}
\* uneven gaps: shorter than the interval, the interval, several intervals
PaceGaps == {50, 150, 450}
\* container.clientWidth (0 stands for an unset width) and window.innerHeight
ClientWidths == {0, 205}
InnerHeights == {430}
\* window.innerWidth
InnerWidths == {240, 800}
\* values found in storage at startup
SavedHighScores == {0}
\* what localStorage holds when the page loads (0: no entry), the ways it
\* behaves during a page load, and the canvas width of those page loads
StoredScores == {0, 1}
StorageModes == {"ok", "quota", "disabled"}
StoreWidths == {205}
\* the effects module: not loaded, loaded, or loaded and throwing from onEvent
\* and render; and what a listener registered with on() does when called
EffectGaps == {TICK_MS, 1000}
FxGaps == {TICK_MS, 2 * TICK_MS}
FxKinds == {"absent", "present", "faulty"}
ListenerKinds == {"ok", "throws"}

Directions == {"up", "down", "left", "right"}
Null == "null"

Min(a, b) == IF a < b THEN a ELSE b
Max(a, b) == IF a > b THEN a ELSE b
Abs(a) == IF a < 0 THEN -a ELSE a

Cell(cx, cy) == [x |-> cx, y |-> cy]

----------------------------------------------------------------------------
(* Canvas sizing *)

ResizeCanvas(clientWidth, innerHeight) ==
  LET availableW == IF clientWidth = 0 THEN 400 ELSE clientWidth
      availableH == Max(innerHeight - 220, 200)
      size == Max(Min(availableW, availableH), 200)
      cs == Max(1, size \div CELLS_ACROSS)
  IN [cellSize |-> cs,
      gridW |-> Max(MIN_GRID, size \div cs),
      gridH |-> Max(MIN_GRID, size \div cs)]

\* snake[i].x = Math.min(snake[i].x, gridW - 1), likewise y
ClampCell(c, gw, gh) == Cell(Min(c.x, gw - 1), Min(c.y, gh - 1))

----------------------------------------------------------------------------
(* Food *)

\* faulty variant: the tail cell is not compared
IsOnSnakeSkipTail(s, pos) ==
  \E i \in 1..(Len(s) - 1) : s[i].x = pos.x /\ s[i].y = pos.y

IsOnSnake(s, pos) == \E i \in 1..Len(s) : s[i].x = pos.x /\ s[i].y = pos.y

\* The random source of one spawnFood call: the first draw, and the draw that
\* every later iteration of the loop gets.
DrawCells(gw, gh) ==
  {Cell(cx, cy) : cx \in ((gw \div 2) - FoodReach)..(gw \div 2),
                  cy \in ((gh \div 2) - FoodReach)..(gh \div 2)}
Streams(gw, gh) ==
  {[first |-> a, rest |-> b] : a \in {Cell(gw \div 2, gh \div 2)}, b \in DrawCells(gw, gh)}
    \cup {[first |-> a, rest |-> a] : a \in DrawCells(gw, gh)}

\* the i-th cell of the path that covers the grid row by row, alternately left
\* to right and right to left
PathCell(i, gw) ==
  LET row == (i - 1) \div gw
      col == (i - 1) % gw
  IN Cell(IF row % 2 = 0 THEN col ELSE gw - 1 - col, row)
\* a snake of n cells lying on that path from its first cell on, head last
PathSnake(n, gw) == [j \in 1..n |-> PathCell(n + 1 - j, gw)]
\* the random source whose i-th draw is the i-th cell of the path: on a path
\* snake it lands on every snake cell before it reaches a free one
WalkStream(gw, gh) ==
  [first |-> PathCell(1, gw), rest |-> PathCell(1, gw), walk |-> [w |-> gw, h |-> gh]]

Draw(stream, i) ==
  IF "walk" \in DOMAIN stream
  THEN PathCell(((i - 1) % (stream.walk.w * stream.walk.h)) + 1, stream.walk.w)
  ELSE IF i = 1 THEN stream.first ELSE stream.rest

\* faulty variant: the loop goes on while attempts <= maxAttempts
SpawnStepOneMore(s, stream, st, maxAttempts) ==
  LET pos == Draw(stream, st.attempts + 1)
      n == st.attempts + 1
  IN [pos |-> pos, attempts |-> n,
      done |-> ~(IsOnSnake(s, pos) /\ n <= maxAttempts)]

\* One iteration of
\*   do { pos = draw; attempts++ } while (isOnSnake(pos) && attempts < maxAttempts)
\* on the loop state [pos, attempts, done]; done once the loop condition is false.
SpawnStep(s, stream, st, maxAttempts) ==
  LET pos == Draw(stream, st.attempts + 1)
      n == st.attempts + 1
  IN [pos |-> pos, attempts |-> n,
      done |-> ~(IsOnSnake(s, pos) /\ n < maxAttempts)]

\* Up to k iterations of the loop from state st (the k iterations are run as two
\* halves, which keeps the evaluation shallow); the result is not done when the
\* loop would still go on after them.
RECURSIVE SpawnLoop(_, _, _, _, _)
SpawnLoop(s, stream, st, k, maxAttempts) ==
  IF st.done \/ k = 0 THEN st
  ELSE IF k = 1 THEN SpawnStep(s, stream, st, maxAttempts)
  ELSE SpawnLoop(s, stream, SpawnLoop(s, stream, st, k \div 2, maxAttempts),
                 k - (k \div 2), maxAttempts)

\* spawnFood(): the loop is followed for Overrun iterations beyond maxAttempts
SpawnFood(s, stream, gw, gh) ==
  SpawnLoop(s, stream, [pos |-> stream.first, attempts |-> 0, done |-> FALSE],
            gw * gh + Overrun, gw * gh)

----------------------------------------------------------------------------
(* Difficulty *)

\* faulty variant: the interval is not floored at TICK_MIN_MS
DifficultyIntervalNoFloor(sc) ==
  TICK_MS - (sc \div TICK_LEVEL_EVERY) * TICK_STEP_MS

DifficultyInterval(sc) ==
  LET level == sc \div TICK_LEVEL_EVERY
  IN Max(TICK_MIN_MS, TICK_MS - level * TICK_STEP_MS)

----------------------------------------------------------------------------
(* Snake reset *)

\* faulty variant: the three cells are laid two columns apart
ResetCellsSpaced(gw, gh) ==
  LET midX == gw \div 2
      midY == gh \div 2
  IN <<Cell(midX, midY), Cell(midX - 2, midY), Cell(midX - 4, midY)>>

\* resetSnake(): the head at the centre, the body to its left
ResetCells(gw, gh) ==
  LET midX == gw \div 2
      midY == gh \div 2
  IN <<Cell(midX, midY), Cell(midX - 1, midY), Cell(midX - 2, midY)>>

\* the grids the canvas can have, and the food that spawnFood() places on the
\* freshly reset snake, for each grid and each random stream
CanvasGrids ==
  {<<ResizeCanvas(cw, ih).gridW, ResizeCanvas(cw, ih).gridH>> :
     cw \in ClientWidths, ih \in InnerHeights}
ResetSpawn ==
  [g \in CanvasGrids |->
    [stream \in Streams(g[1], g[2]) |->
      SpawnFood(ResetCells(g[1], g[2]), stream, g[1], g[2])]]

\* the engine's fields as getState() returns them to a handler that runs inside
\* triggerEvent
View(s, f, sc, interval, phase) ==
  [snake |-> s, food |-> f, score |-> sc, currentTickMs |-> interval,
   gameState |-> phase]
NoView == View(<<>>, [x |-> -1, y |-> -1], 0, 0, "-")

Op(name) == [op |-> name, dir |-> "-", tick |-> "-", seen |-> NoView]

----------------------------------------------------------------------------
(* High-score storage *)

\* loadHighScore(): the stored value when it can be read and is positive
LoadHighScore(mode, value) ==
  IF mode = "disabled" THEN 0
  ELSE IF value > 0 THEN value ELSE 0

\* faulty variant: setItem outside a try block
SaveHighScoreNoCatch(mode, old, value) ==
  [stored |-> IF mode = "ok" THEN value ELSE old,
   writes |-> IF mode = "ok" THEN 1 ELSE 0,
   threw |-> mode # "ok"]

\* saveHighScore(): try { localStorage.setItem(...) } catch (e) {}
SaveHighScore(mode, old, value) ==
  [stored |-> IF mode = "ok" THEN value ELSE old,
   writes |-> IF mode = "ok" THEN 1 ELSE 0,
   threw |-> FALSE]

\* faulty variant: the high score is saved when the score reaches it
ShowGameOverOverlayOnTie(sc, hs, mode, old) ==
  IF sc >= hs
  THEN LET w == SaveHighScore(mode, old, sc)
       IN [highScore |-> sc, stored |-> w.stored, writes |-> w.writes,
           threw |-> w.threw]
  ELSE [highScore |-> hs, stored |-> old, writes |-> 0, threw |-> FALSE]

\* the high-score part of showGameOverOverlay()
ShowGameOverOverlay(sc, hs, mode, old) ==
  IF sc > hs
  THEN LET w == SaveHighScore(mode, old, sc)
       IN [highScore |-> sc, stored |-> w.stored, writes |-> w.writes,
           threw |-> w.threw]
  ELSE [highScore |-> hs, stored |-> old, writes |-> 0, threw |-> FALSE]

----------------------------------------------------------------------------
(* Effects module *)

\* Math.random() takes the values q / RandomSteps for q in 0..RandomSteps - 1;
\* the draws of a frame are q for the lifetimes of new particles and q for each
\* of the two shake offsets
FxFixed == [life |-> 3, sx |-> 3, sy |-> 0]
FxRandoms ==
  {[life |-> 0, sx |-> 0, sy |-> 2], [life |-> 2, sx |-> 3, sy |-> 0]}

\* the untouched drawing context: no save pending, no translation
CtxIdle == [depth |-> 0, shift |-> <<0, 0>>]

\* the module's state: the timestamp of the previous frame, the trail throttle,
\* the shake (ms left, duration, amplitude, offsets in units of
\* 1 / (RandomSteps * shakeDuration) px) and the active particles; with it the
\* draws of the current frame, the elapsed time the latest frame applied, the
\* drawing context and what the latest frame painted under which translation,
\* the timestamp of the frame that started the shake (0: none) and the elapsed
\* time applied to the shake since
FxIdle ==
  [lastTimestamp |-> 0, trailTimer |-> 0, shake |-> 0, shakeDuration |-> 0,
   shakeAmplitude |-> 0, shakeX |-> 0, shakeY |-> 0, particles |-> <<>>,
   rnd |-> FxFixed, dt |-> 0, emitted |-> 0, ctx |-> CtxIdle, log |-> <<>>,
   shakeFresh |-> FALSE, shakeAt |-> 0, shakeElapsed |-> 0]

\* new Particle(x, y, vx, vy, life, color, size): x2, y2 are twice the pixel
\* coordinates of the point it is emitted around
Particle(x2, y2, life, kind) ==
  [x2 |-> x2, y2 |-> y2, life |-> life, maxLife |-> life, kind |-> kind,
   updated |-> FALSE]

\* lo + Math.random() * (hi - lo)
Lifetime(q, lo, hi) == lo + (q * (hi - lo)) \div RandomSteps

\* faulty variant: for (i = 1; i < count; i++)
EmitBurstFromOne(f, x2, y2) ==
  [f EXCEPT !.particles =
     @ \o [i \in 1..(BURST_COUNT - 1) |->
             Particle(x2, y2, Lifetime(f.rnd.life, BURST_LIFE_MIN, BURST_LIFE_MS),
                      "burst")]]

\* emitBurst(cx, cy)
EmitBurst(f, x2, y2) ==
  [f EXCEPT !.particles =
     @ \o [i \in 1..BURST_COUNT |->
             Particle(x2, y2, Lifetime(f.rnd.life, BURST_LIFE_MIN, BURST_LIFE_MS),
                      "burst")]]

\* emitTrail(seg, cs)
EmitTrail(ps, seg, cs, q) ==
  ps \o [i \in 1..TRAIL_PER_SEGMENT |->
           Particle(2 * seg.x * cs + cs, 2 * seg.y * cs + cs,
                    Lifetime(q, TRAIL_LIFE_MIN, TRAIL_LIFE_MS), "trail")]

\* startShake(duration, amplitude)
StartShake(f, duration, amplitude) ==
  [f EXCEPT !.shake = duration, !.shakeDuration = duration,
            !.shakeAmplitude = amplitude, !.shakeFresh = TRUE]

\* faulty variant: the offsets are left as they are once the shake has run out
UpdateShakeKeepsOffset(f, dt) ==
  IF f.shake <= 0 THEN f
  ELSE LET remaining == Max(0, f.shake - dt)
       IN [f EXCEPT !.shake = remaining,
                    !.shakeX = (2 * f.rnd.sx - RandomSteps) * f.shakeAmplitude * f.shake,
                    !.shakeY = (2 * f.rnd.sy - RandomSteps) * f.shakeAmplitude * f.shake]

\* updateShake(dt)
UpdateShake(f, dt) ==
  IF f.shake <= 0 THEN [f EXCEPT !.shakeX = 0, !.shakeY = 0]
  ELSE LET remaining == Max(0, f.shake - dt)
       IN [f EXCEPT !.shake = remaining,
                    !.shakeX = (2 * f.rnd.sx - RandomSteps) * f.shakeAmplitude * remaining,
                    !.shakeY = (2 * f.rnd.sy - RandomSteps) * f.shakeAmplitude * remaining]

\* faulty variant: onEvent drops the tail of the snake that getState() hands it
FxOnEventTrims(f, type, s) ==
  [threw |-> FALSE,
   snake |-> SubSeq(s, 1, Len(s) - 1),
   fx |-> IF type = "eat"
          THEN EmitBurst(f, 2 * s[1].x * cellSize + cellSize,
                         2 * s[1].y * cellSize + cellSize)
          ELSE StartShake(f, SHAKE_MS, SHAKE_AMPLITUDE)]

\* onEvent(type, data): a burst at the head on eat, a shake on gameover; s is
\* the engine's snake, which onEvent reads through getState()
FxOnEvent(f, type, s) ==
  [threw |-> FALSE,
   snake |-> s,
   fx |-> IF type = "eat"
          THEN IF Len(s) > 0
               THEN EmitBurst(f, 2 * s[1].x * cellSize + cellSize,
                              2 * s[1].y * cellSize + cellSize)
               ELSE f
          ELSE IF type = "gameover" THEN StartShake(f, SHAKE_MS, SHAKE_AMPLITUDE)
          ELSE f]

\* faulty variant: the update step leaves the particles as they are
AgedFrozen(ps, dt) == ps

\* faulty variant: particles are kept while their lifetime is >= 0
AgedKeepsSpent(ps, dt) ==
  LET older == [i \in 1..Len(ps) |->
                  [ps[i] EXCEPT !.life = @ - dt, !.updated = TRUE]]
  IN SelectSeq(older, LAMBDA p : p.life >= 0)

\* particles[i].update(dt) for every particle, then the ones alive are kept
Aged(ps, dt) ==
  LET older == [i \in 1..Len(ps) |->
                  [ps[i] EXCEPT !.life = @ - dt, !.updated = TRUE]]
  IN SelectSeq(older, LAMBDA p : p.life > 0)

\* faulty variant: the elapsed time is not capped
ElapsedUncapped(previous, timestamp) ==
  IF previous > 0 THEN timestamp - previous ELSE 0

\* the elapsed time of a frame: dt = lastTimestamp > 0 ? timestamp -
\* lastTimestamp : 0, capped at 200
Elapsed(previous, timestamp) ==
  LET raw == IF previous > 0 THEN timestamp - previous ELSE 0
  IN IF raw > DT_CAP_MS THEN DT_CAP_MS ELSE raw

\* the trail particles of one emission: the body segments at indices 1 to
\* Math.min(length, 7) - 1 of the snake array, the head being index 0
RECURSIVE TrailFrom(_, _, _, _, _)
TrailFrom(ps, s, j, limit, q) ==
  IF j > limit THEN ps
  ELSE TrailFrom(EmitTrail(ps, s[j], cellSize, q), s, j + 1, limit, q)

\* what is painted is recorded with the translation in force
Painted(f, what) ==
  [f EXCEPT !.log = Append(@, [what |-> what, shift |-> f.ctx.shift])]

\* render(ctx, state, 'background', timestamp)
FxBackground(f, phase, s, timestamp) ==
  LET dt == Elapsed(f.lastTimestamp, timestamp)
      shaken == UpdateShake(f, dt)
      alive == Aged(f.particles, dt)
      trailing == phase = "playing" /\ Len(s) > 1
      emits == trailing /\ f.trailTimer + dt >= TRAIL_EVERY_MS
      drawn == [what |-> "background",
                shift |-> <<shaken.shakeX, shaken.shakeY>>]
  IN [shaken EXCEPT
        !.lastTimestamp = timestamp,
        !.dt = dt,
        !.trailTimer = IF trailing /\ ~emits THEN f.trailTimer + dt ELSE 0,
        !.particles = IF emits
                      THEN TrailFrom(alive, s, 2, Min(Len(s), TRAIL_LIMIT), f.rnd.life)
                      ELSE alive,
        !.emitted = IF emits THEN Min(Len(s), TRAIL_LIMIT) - 1 ELSE 0,
        !.ctx = [depth |-> f.ctx.depth + 1,
                 shift |-> <<shaken.shakeX, shaken.shakeY>>],
        !.log = <<drawn>>,
        !.shakeFresh = FALSE,
        !.shakeAt = IF f.shakeFresh THEN timestamp ELSE f.shakeAt,
        !.shakeElapsed = IF f.shakeFresh THEN dt
                         ELSE Min(f.shakeDuration, f.shakeElapsed + dt)]

\* faulty variant: the context is restored only when a shake is running
FxOverlayWhenShaking(f) ==
  LET done == Painted(f, "particles")
  IN IF f.shake > 0
     THEN [done EXCEPT !.ctx = [depth |-> f.ctx.depth - 1, shift |-> <<0, 0>>]]
     ELSE done

\* render(ctx, state, 'overlay', timestamp): the particles, then ctx.restore()
FxOverlay(f) ==
  [Painted(f, "particles") EXCEPT
     !.ctx = [depth |-> f.ctx.depth - 1, shift |-> <<0, 0>>]]

\* the engine's render(timestamp) with the module loaded: the background call,
\* the food, the snake, the overlay call
FxRender(f, phase, s, timestamp) ==
  FxOverlay(Painted(Painted(FxBackground(f, phase, s, timestamp), "food"), "snake"))

----------------------------------------------------------------------------
(* Snapshots *)

NoSnap ==
  [taken |-> FALSE, snake |-> <<>>, food |-> Cell(-1, -1),
   sharesSnake |-> FALSE, sharesFood |-> FALSE]

\* what the consumer's snapshot shows once the engine's snake is s and its food
\* is f: getState() hands out the engine's own array and food object, so the
\* snapshot follows them until the engine replaces the array (newArray) or the
\* food object (newFood)
SnapAfter(s, f, newArray, newFood) ==
  IF ~snap.taken THEN snap
  ELSE [taken |-> TRUE,
        sharesSnake |-> snap.sharesSnake /\ ~newArray,
        snake |-> IF snap.sharesSnake /\ ~newArray THEN s ELSE snap.snake,
        sharesFood |-> snap.sharesFood /\ ~newFood,
        food |-> IF snap.sharesFood /\ ~newFood THEN f ELSE snap.food]

----------------------------------------------------------------------------
(* Initialisation *)

\* what is outside the engine's game fields once init() and setupGame() have run
Boot(saved, mode, fxk, ctl) ==
  /\ now = 0
  /\ emitted = <<>>
  /\ stored = saved
  /\ storage = mode
  /\ listener = "none"
  /\ fxKind = fxk
  /\ fx = FxIdle
  /\ controls = ctl
  /\ pendingDir = Null
  /\ lastDir = IF ctl THEN "right" ELSE Null
  /\ buffered = Null
  /\ rafPending = 1
  /\ snap = NoSnap
  /\ failed = FALSE
  /\ writes = 0

\* the state after init() and setupGame()
Setup(cw, ih, saved, mode, fxk, ctl, stream) ==
  LET canvas == ResizeCanvas(cw, ih)
      cells == ResetCells(canvas.gridW, canvas.gridH)
      spawn == ResetSpawn[<<canvas.gridW, canvas.gridH>>][stream]
  IN /\ cellSize = canvas.cellSize
     /\ gridW = canvas.gridW
     /\ gridH = canvas.gridH
     /\ highScore = LoadHighScore(mode, saved)
     /\ snake = cells
     /\ direction = "right"
     /\ nextDirection = "right"
     /\ lastTickTime = 0
     /\ score = 0
     /\ currentTickMs = TICK_MS
     /\ food = spawn.pos
     /\ attempts = spawn.attempts
     /\ gameState = "start"
     /\ last = Op("init")
     /\ Boot(saved, mode, fxk, ctl)

\* the engine alone, with working storage
Init ==
  \E cw \in ClientWidths, ih \in InnerHeights, saved \in SavedHighScores :
    \E stream \in Streams(ResizeCanvas(cw, ih).gridW, ResizeCanvas(cw, ih).gridH) :
      Setup(cw, ih, saved, "ok", "absent", FALSE, stream)

\* what a handler that touches neither storage, effects nor the adapter leaves alone
Quiet ==
  /\ failed' = FALSE
  /\ writes' = 0
  /\ UNCHANGED <<stored, storage, listener, fxKind, fx, controls, pendingDir,
                 lastDir, rafPending>>

\* faulty variant: resetSnake() sets the committed direction back and leaves the
\* pending one
ResetSnakeEffectKeepPending(stream) ==
  LET cells == ResetCells(gridW, gridH)
      spawn == ResetSpawn[<<gridW, gridH>>][stream]
  IN /\ snake' = cells
     /\ direction' = "right"
     /\ UNCHANGED nextDirection
     /\ lastTickTime' = 0
     /\ score' = 0
     /\ currentTickMs' = TICK_MS
     /\ food' = spawn.pos
     /\ attempts' = spawn.attempts
     /\ buffered' = Null
     /\ snap' = SnapAfter(cells, spawn.pos, TRUE, TRUE)

\* faulty variant: resetSnake() as in src/public/snake/game.js, which has no tick
\* interval to set back
ResetSnakeEffectKeepInterval(stream) ==
  LET cells == ResetCells(gridW, gridH)
      spawn == ResetSpawn[<<gridW, gridH>>][stream]
  IN /\ snake' = cells
     /\ direction' = "right"
     /\ nextDirection' = "right"
     /\ lastTickTime' = 0
     /\ score' = 0
     /\ UNCHANGED currentTickMs
     /\ food' = spawn.pos
     /\ attempts' = spawn.attempts
     /\ buffered' = Null
     /\ snap' = SnapAfter(cells, spawn.pos, TRUE, TRUE)

\* resetSnake(): everything but the phase, the high score and the grid
ResetSnakeEffect(stream) ==
  LET cells == ResetCells(gridW, gridH)
      spawn == ResetSpawn[<<gridW, gridH>>][stream]
  IN /\ snake' = cells
     /\ direction' = "right"
     /\ nextDirection' = "right"
     /\ lastTickTime' = 0
     /\ score' = 0
     /\ currentTickMs' = TICK_MS
     /\ food' = spawn.pos
     /\ attempts' = spawn.attempts
     /\ buffered' = Null
     /\ snap' = SnapAfter(cells, spawn.pos, TRUE, TRUE)

----------------------------------------------------------------------------
(* Game state transitions *)

\* handleKeyDown ' ' / overlay tap in phase start
StartGame ==
  /\ gameState = "start"
  /\ gameState' = "playing"
  /\ lastTickTime' = 0
  /\ emitted' = <<>>
  /\ last' = Op("start")
  /\ Quiet
  /\ UNCHANGED <<cellSize, gridW, gridH, snake, direction, nextDirection, food,
                 score, highScore, currentTickMs, now, attempts, buffered, snap>>

\* pauseGame()
PauseEffect ==
  /\ gameState' = "paused"
  /\ UNCHANGED <<cellSize, gridW, gridH, snake, direction, nextDirection, food,
                 score, highScore, lastTickTime, currentTickMs, now, attempts,
                 buffered, snap>>

\* handleKeyDown 'Escape' in phase playing
PauseGame ==
  /\ gameState = "playing"
  /\ PauseEffect
  /\ emitted' = <<>>
  /\ last' = Op("pause")
  /\ Quiet

\* handleKeyDown ' ' or 'Escape' / overlay tap in phase paused
ResumeGame ==
  /\ gameState = "paused"
  /\ gameState' = "playing"
  /\ lastTickTime' = 0
  /\ emitted' = <<>>
  /\ last' = Op("resume")
  /\ Quiet
  /\ UNCHANGED <<cellSize, gridW, gridH, snake, direction, nextDirection, food,
                 score, highScore, currentTickMs, now, attempts, buffered, snap>>

\* faulty variant: restartGame without gameState = 'playing'
RestartGameStaysOver ==
  /\ gameState = "gameover"
  /\ \E stream \in Streams(gridW, gridH) : ResetSnakeEffect(stream)
  /\ gameState' = "gameover"
  /\ emitted' = <<>>
  /\ last' = Op("restart")
  /\ Quiet
  /\ UNCHANGED <<cellSize, gridW, gridH, highScore, now>>

\* handleKeyDown ' ' / Play Again button in phase gameover
RestartGame ==
  /\ gameState = "gameover"
  /\ \E stream \in Streams(gridW, gridH) : ResetSnakeEffect(stream)
  /\ gameState' = "playing"
  /\ emitted' = <<>>
  /\ last' = Op("restart")
  /\ Quiet
  /\ UNCHANGED <<cellSize, gridW, gridH, highScore, now>>

\* window.SnakeGame.resetSnake(), callable in any phase
ResetSnake ==
  /\ \E stream \in Streams(gridW, gridH) : ResetSnakeEffect(stream)
  /\ emitted' = <<>>
  /\ last' = Op("reset")
  /\ Quiet
  /\ UNCHANGED <<cellSize, gridW, gridH, highScore, gameState, now>>

----------------------------------------------------------------------------
(* Direction *)

Opposite(d) ==
  CASE d = "up" -> "down"
    [] d = "down" -> "up"
    [] d = "left" -> "right"
    [] d = "right" -> "left"

\* faulty variant: the reversal is checked against the pending direction
SetDirectionAgainstPending(dir) ==
  /\ nextDirection' = IF gameState = "playing" /\ dir # Opposite(nextDirection)
                      THEN dir ELSE nextDirection
  /\ emitted' = <<>>
  /\ last' = [Op("setDirection") EXCEPT !.dir = dir]
  /\ Quiet
  /\ UNCHANGED <<cellSize, gridW, gridH, snake, direction, food, score, highScore,
                 gameState, lastTickTime, currentTickMs, now, attempts, buffered,
                 snap>>

\* faulty variant: setDirection of the oldest revision (src/unnamed/part_000,
\* lines 855-860), which does not look at the phase
SetDirectionAnyPhase(dir) ==
  /\ nextDirection' = IF dir # Opposite(direction) THEN dir ELSE nextDirection
  /\ emitted' = <<>>
  /\ last' = [Op("setDirection") EXCEPT !.dir = dir]
  /\ Quiet
  /\ UNCHANGED <<cellSize, gridW, gridH, snake, direction, food, score, highScore,
                 gameState, lastTickTime, currentTickMs, now, attempts, buffered,
                 snap>>

\* window.SnakeGame.setDirection(dir)
SetDirection(dir) ==
  /\ nextDirection' = IF gameState = "playing" /\ dir # Opposite(direction)
                      THEN dir ELSE nextDirection
  /\ emitted' = <<>>
  /\ last' = [Op("setDirection") EXCEPT !.dir = dir]
  /\ Quiet
  /\ UNCHANGED <<cellSize, gridW, gridH, snake, direction, food, score, highScore,
                 gameState, lastTickTime, currentTickMs, now, attempts, buffered,
                 snap>>

----------------------------------------------------------------------------
(* Input adapter *)

\* applyDirection(dir) of controls.js, reached from the keyboard, swipe and
\* D-pad handlers
ApplyDirection(dir) ==
  LET refDir == IF pendingDir # Null THEN pendingDir ELSE direction
      accepted == controls /\ gameState = "playing" /\ dir # Opposite(refDir)
  IN /\ pendingDir' = IF accepted THEN dir ELSE pendingDir
     /\ buffered' = IF accepted THEN dir ELSE buffered
     /\ nextDirection' = IF accepted /\ dir # Opposite(direction)
                         THEN dir ELSE nextDirection
     /\ emitted' = <<>>
     /\ last' = [Op("applyDirection") EXCEPT !.dir = dir]
     /\ failed' = FALSE
     /\ writes' = 0
     /\ UNCHANGED <<cellSize, gridW, gridH, snake, direction, food, score,
                    highScore, gameState, lastTickTime, currentTickMs, now,
                    attempts, snap, stored, storage, listener, fxKind, fx,
                    controls, lastDir, rafPending>>

\* tickWatcher(): the adapter's own animation-frame callback, registered by
\* setupGame before renderLoop and so run before it in every frame
TickWatcher ==
  IF ~controls THEN UNCHANGED <<pendingDir, lastDir>>
  ELSE IF gameState # "playing"
  THEN pendingDir' = Null /\ lastDir' = Null
  ELSE IF direction # lastDir
  THEN lastDir' = direction /\ pendingDir' = Null
  ELSE UNCHANGED <<pendingDir, lastDir>>

----------------------------------------------------------------------------
(* Game tick *)

\* faulty variant: the y axis points up
TranslateYUp(head, dir) ==
  CASE dir = "up" -> Cell(head.x, head.y + 1)
    [] dir = "down" -> Cell(head.x, head.y - 1)
    [] dir = "left" -> Cell(head.x - 1, head.y)
    [] dir = "right" -> Cell(head.x + 1, head.y)

Translate(head, dir) ==
  CASE dir = "up" -> Cell(head.x, head.y - 1)
    [] dir = "down" -> Cell(head.x, head.y + 1)
    [] dir = "left" -> Cell(head.x - 1, head.y)
    [] dir = "right" -> Cell(head.x + 1, head.y)

\* faulty variant: the column gridW and the row gridH count as inside
OutOfBoundsInclusive(c, gw, gh) == c.x < 0 \/ c.x > gw \/ c.y < 0 \/ c.y > gh

OutOfBounds(c, gw, gh) == c.x < 0 \/ c.x >= gw \/ c.y < 0 \/ c.y >= gh

Event(type, sc) == [type |-> type, score |-> sc]

\* triggerEvent(type, data): the registered handlers first, then the effects
\* module; an exception of a handler leaves triggerEvent, and its caller, at once.
\* s is the engine's snake while the handlers run.
TriggerEventOf(lst, fxk, f, type, s) ==
  IF lst = "throws" \/ fxk = "faulty"
  THEN [threw |-> TRUE, snake |-> s, fx |-> f]
  ELSE IF fxk = "present" THEN FxOnEvent(f, type, s)
  ELSE [threw |-> FALSE, snake |-> s, fx |-> f]

TriggerEvent(type, s) == TriggerEventOf(listener, fxKind, fx, type, s)

\* what a tick leaves behind: the engine's fields, the events it emitted, the
\* kind of tick, the effects state, the storage, whether an exception ended it,
\* and the engine's fields at the moment its event was delivered
TickResult(s, f, sc, hs, phase, interval, tries, events, kind, effects, st, written, threw, newFood, view) ==
  [snake |-> s, food |-> f, score |-> sc, highScore |-> hs, gameState |-> phase,
   currentTickMs |-> interval, attempts |-> tries, emitted |-> events,
   tick |-> kind, fx |-> effects, stored |-> st, writes |-> written,
   failed |-> threw, respawned |-> newFood, seen |-> view]

\* faulty variant: the collision is found after the snake has been advanced
GameOverViewMoved ==
  View(SubSeq(<<Translate(snake[1], nextDirection)>> \o snake, 1, Len(snake)),
       food, score, currentTickMs, "gameover")

\* the engine's fields when triggerEvent('gameover') runs: gameState is already
\* 'gameover', everything else is as the tick found it
GameOverView == View(snake, food, score, currentTickMs, "gameover")

\* gameState = 'gameover'; triggerEvent('gameover', {score}); showGameOverOverlay()
GameOverPathOf(lst, fxk, f, kind) ==
  LET view == GameOverView
      ev == TriggerEventOf(lst, fxk, f, "gameover", view.snake)
      ov == ShowGameOverOverlay(score, highScore, storage, stored)
  IN IF ev.threw
     THEN TickResult(ev.snake, food, score, highScore, "gameover", currentTickMs,
                     attempts, <<Event("gameover", view.score)>>, kind, ev.fx,
                     stored, 0, TRUE, FALSE, view)
     ELSE TickResult(ev.snake, food, score, ov.highScore, "gameover",
                     currentTickMs, attempts, <<Event("gameover", view.score)>>,
                     kind, ev.fx, ov.stored, ov.writes, ov.threw, FALSE, view)

GameOverPath(kind) == GameOverPathOf(listener, fxKind, fx, kind)

\* faulty variant: the tail is dropped on an eating tick too
GrownDropsTail(s, newHead) == <<newHead>> \o SubSeq(s, 1, Len(s) - 1)

\* faulty variant: the cell taken off is the old head, not the tail
MovedDropsNeck(s, newHead) == <<newHead>> \o SubSeq(s, 2, Len(s))

\* the snake after unshift(newHead), and after the pop of a non-eating tick
Grown(s, newHead) == <<newHead>> \o s
Moved(s, newHead) == SubSeq(Grown(s, newHead), 1, Len(s))

Eats(newHead) ==
  /\ ~OutOfBounds(newHead, gridW, gridH)
  /\ ~IsOnSnake(snake, newHead)
  /\ food.x = newHead.x /\ food.y = newHead.y

\* faulty variant: the eat event is emitted right after the unshift, before the
\* score and the interval are brought up to date
EatViewBeforeScore(newHead) ==
  View(Grown(snake, newHead), food, score, currentTickMs, gameState)

\* the engine's fields when triggerEvent('eat') runs: after unshift(newHead),
\* score += 1 and the recomputation of currentTickMs, before spawnFood()
EatView(newHead) ==
  View(Grown(snake, newHead), food, score + 1, DifficultyInterval(score + 1),
       gameState)

\* gameTick(), with the random draws of its spawnFood() call, for a listener
\* lst, an effects module fxk and its state f; the committed direction becomes
\* nextDirection in every branch
GameTickOf(lst, fxk, f, stream) ==
  LET newHead == Translate(snake[1], nextDirection) IN
  IF OutOfBounds(newHead, gridW, gridH) THEN GameOverPathOf(lst, fxk, f, "wall")
  ELSE IF IsOnSnake(snake, newHead) THEN GameOverPathOf(lst, fxk, f, "self")
  ELSE IF food.x = newHead.x /\ food.y = newHead.y
  THEN LET view == EatView(newHead)
           ev == TriggerEventOf(lst, fxk, f, "eat", view.snake) IN
       IF ev.threw
       THEN TickResult(ev.snake, view.food, view.score, highScore, gameState,
                       view.currentTickMs, attempts,
                       <<Event("eat", view.score)>>, "eat", ev.fx, stored, 0, TRUE,
                       FALSE, view)
       ELSE LET spawn == SpawnFood(ev.snake, stream, gridW, gridH) IN
            TickResult(ev.snake, spawn.pos, view.score, highScore, gameState,
                       view.currentTickMs, spawn.attempts,
                       <<Event("eat", view.score)>>, "eat", ev.fx, stored, 0, FALSE,
                       TRUE, view)
  ELSE TickResult(Moved(snake, newHead), food, score, highScore, gameState,
                  currentTickMs, attempts, <<>>, "move", f, stored, 0, FALSE,
                  FALSE, NoView)

GameTick(stream) == GameTickOf(listener, fxKind, fx, stream)

\* a paint callback in which no tick is due
NoTickOf(f) ==
  TickResult(snake, food, score, highScore, gameState, currentTickMs, attempts,
             <<>>, "none", f, stored, 0, FALSE, FALSE, NoView)

NoTick == NoTickOf(fx)

----------------------------------------------------------------------------
(* Render loop *)

\* faulty variant: the phase is not looked at
TickDueAnyPhase(timestamp) == timestamp - lastTickTime >= currentTickMs

TickDue(timestamp) ==
  gameState = "playing" /\ timestamp - lastTickTime >= currentTickMs

\* render(timestamp) after the tick: not reached when the tick threw; the
\* effects module paints and updates its particles and shake
Render(r, timestamp) ==
  IF r.failed THEN r
  ELSE IF fxKind = "faulty" THEN [r EXCEPT !.failed = TRUE]
  ELSE IF fxKind = "present"
  THEN [r EXCEPT !.fx = FxRender(r.fx, r.gameState, r.snake, timestamp)]
  ELSE r

\* faulty variant: requestAnimationFrame(renderLoop) as the last statement
RescheduledAtEnd(pending, threw) == IF threw THEN pending - 1 ELSE (pending - 1) + 1

\* the invocations of renderLoop scheduled after one of them ran:
\* requestAnimationFrame(renderLoop) is the first statement of renderLoop
Rescheduled(pending, threw) == (pending - 1) + 1

\* renderLoop(timestamp), with the draws of Math.random() that the effects
\* module makes in this frame taken from rnds
\* faulty variant: the timestamp is recorded in every callback
TickTimeEveryFrame(due, timestamp) == timestamp

\* lastTickTime = timestamp, inside the branch that runs the tick
TickTime(due, timestamp) == IF due THEN timestamp ELSE lastTickTime

RenderLoopOf(timestamp, rnds) ==
  LET due == TickDue(timestamp)
      draws == IF due /\ Eats(Translate(snake[1], nextDirection))
               THEN Streams(gridW, gridH)
               ELSE {[first |-> Cell(0, 0), rest |-> Cell(0, 0)]}
  IN /\ now' = timestamp
     /\ lastTickTime' = TickTime(due, timestamp)
     /\ direction' = IF due THEN nextDirection ELSE direction
     /\ \E stream \in draws, rnd \in rnds :
          \E r \in {Render(IF due
                           THEN GameTickOf(listener, fxKind, [fx EXCEPT !.rnd = rnd],
                                           stream)
                           ELSE NoTickOf([fx EXCEPT !.rnd = rnd]), timestamp)} :
            /\ snake' = r.snake
            /\ food' = r.food
            /\ score' = r.score
            /\ highScore' = r.highScore
            /\ gameState' = r.gameState
            /\ currentTickMs' = r.currentTickMs
            /\ attempts' = r.attempts
            /\ emitted' = r.emitted
            /\ last' = [op |-> "frame",
                        dir |-> IF due THEN nextDirection ELSE "-",
                        tick |-> r.tick, seen |-> r.seen]
            /\ fx' = r.fx
            /\ stored' = r.stored
            /\ writes' = r.writes
            /\ failed' = r.failed
            /\ rafPending' = Rescheduled(rafPending, r.failed)
            /\ snap' = SnapAfter(r.snake, r.food, FALSE, r.respawned)
     /\ buffered' = IF due THEN Null ELSE buffered
     /\ UNCHANGED <<cellSize, gridW, gridH, nextDirection, storage, listener,
                    fxKind, controls>>

RenderLoop(timestamp) == RenderLoopOf(timestamp, {FxFixed})

\* the cells the exploration lets the head move to: a box around the centre of
\* the grid, or the centre row and the centre column up to the walls
InBox(c) ==
  Abs(c.x - (gridW \div 2)) <= Stray /\ Abs(c.y - (gridH \div 2)) <= Stray
InArms(c) == c.x = gridW \div 2 \/ c.y = gridH \div 2
InRegion(region, c) ==
  IF region = "box" THEN InBox(c)
  ELSE IF region = "arms" THEN InArms(c)
  ELSE IF region = "cross" THEN InBox(c) \/ InArms(c)
  ELSE TRUE

\* an animation frame: tickWatcher, then renderLoop; explored for gaps between
\* frames in gaps, in the phases given, for maxFrames tick intervals and while
\* the head stays in the region
FrameWith(gaps, phases, maxFrames, region, rnds) ==
  \E gap \in gaps :
    /\ now + gap <= maxFrames * TICK_MS
    /\ gameState \in phases
    /\ rafPending > 0
    /\ TickDue(now + gap)
         => LET newHead == Translate(snake[1], nextDirection)
            IN OutOfBounds(newHead, gridW, gridH) \/ InRegion(region, newHead)
    /\ TickWatcher
    /\ RenderLoopOf(now + gap, rnds)

FrameOf(gaps, phases, maxFrames, region) ==
  FrameWith(gaps, phases, maxFrames, region, {FxFixed})

\* a frame one base interval after the previous one, while playing
Frame(maxFrames, region) == FrameOf(FrameGaps, {"playing"}, maxFrames, region)

----------------------------------------------------------------------------
(* Window resize *)

\* faulty variant: handleResize() as in src/public/snake/game.js, which clamps
\* the snake and leaves the food where it was
HandleResizeLeavesFood(innerWidth, clientWidth, innerHeight) ==
  /\ emitted' = <<>>
  /\ last' = Op("resize")
  /\ Quiet
  /\ IF innerWidth < MIN_SCREEN_PX
     THEN IF gameState = "playing" THEN PauseEffect
          ELSE UNCHANGED <<engine, now, attempts, buffered, snap>>
     ELSE LET canvas == ResizeCanvas(clientWidth, innerHeight)
              clamped == [i \in 1..Len(snake) |->
                            ClampCell(snake[i], canvas.gridW, canvas.gridH)]
          IN /\ cellSize' = canvas.cellSize
             /\ gridW' = canvas.gridW
             /\ gridH' = canvas.gridH
             /\ snake' = clamped
             /\ food' = food
             /\ snap' = SnapAfter(clamped, food, FALSE, FALSE)
             /\ UNCHANGED <<direction, nextDirection, score, highScore, gameState,
                            lastTickTime, currentTickMs, now, attempts, buffered>>

HandleResize(innerWidth, clientWidth, innerHeight) ==
  /\ emitted' = <<>>
  /\ last' = Op("resize")
  /\ Quiet
  /\ IF innerWidth < MIN_SCREEN_PX
     THEN IF gameState = "playing" THEN PauseEffect
          ELSE UNCHANGED <<engine, now, attempts, buffered, snap>>
     ELSE LET canvas == ResizeCanvas(clientWidth, innerHeight)
              clamped == [i \in 1..Len(snake) |->
                            ClampCell(snake[i], canvas.gridW, canvas.gridH)]
              clampedFood == ClampCell(food, canvas.gridW, canvas.gridH)
          IN /\ cellSize' = canvas.cellSize
             /\ gridW' = canvas.gridW
             /\ gridH' = canvas.gridH
             /\ snake' = clamped
             /\ food' = clampedFood
             /\ snap' = SnapAfter(clamped, clampedFood, FALSE, FALSE)
             /\ UNCHANGED <<direction, nextDirection, score, highScore, gameState,
                            lastTickTime, currentTickMs, now, attempts, buffered>>

Resize ==
  \E iw \in InnerWidths, cw \in ClientWidths, ih \in InnerHeights :
    HandleResize(iw, cw, ih)

\* a resize that leaves the window narrower than MIN_SCREEN_PX
ResizeNarrow ==
  \E iw \in {w \in InnerWidths : w < MIN_SCREEN_PX}, cw \in ClientWidths,
     ih \in InnerHeights :
    HandleResize(iw, cw, ih)

-----------------------------------------------------------------------------
(* Automatic pause *)

\* faulty variant: the game is resumed when the tab becomes visible again
HandleVisibilityChangeToggles(hidden) ==
  /\ emitted' = <<>>
  /\ last' = Op(IF hidden THEN "hidden" ELSE "visible")
  /\ Quiet
  /\ IF hidden /\ gameState = "playing" THEN PauseEffect
     ELSE IF ~hidden /\ gameState = "paused"
     THEN /\ gameState' = "playing"
          /\ lastTickTime' = 0
          /\ UNCHANGED <<cellSize, gridW, gridH, snake, direction, nextDirection,
                         food, score, highScore, currentTickMs, now, attempts,
                         buffered, snap>>
     ELSE UNCHANGED <<engine, now, attempts, buffered, snap>>

\* handleVisibilityChange(), with the value of document.hidden
HandleVisibilityChange(hidden) ==
  /\ emitted' = <<>>
  /\ last' = Op(IF hidden THEN "hidden" ELSE "visible")
  /\ Quiet
  /\ IF hidden /\ gameState = "playing" THEN PauseEffect
     ELSE UNCHANGED <<engine, now, attempts, buffered, snap>>

\* handleOrientationChange()
HandleOrientationChange ==
  /\ emitted' = <<>>
  /\ last' = Op("orientation")
  /\ Quiet
  /\ IF gameState = "playing" THEN PauseEffect
     ELSE UNCHANGED <<engine, now, attempts, buffered, snap>>

----------------------------------------------------------------------------
\* window.SnakeGame.setScore(n), used to preset the score before the game starts
SetScore(n) ==
  /\ gameState = "start"
  /\ score' = n
  /\ emitted' = <<>>
  /\ last' = Op("setScore")
  /\ Quiet
  /\ UNCHANGED <<cellSize, gridW, gridH, snake, direction, nextDirection, food,
                 highScore, gameState, lastTickTime, currentTickMs, now, attempts,
                 buffered, snap>>

----------------------------------------------------------------------------
(* Consumers of the public API *)

\* window.SnakeGame.getState(): the returned object holds the engine's own snake
\* array and food object
GetState ==
  /\ snap' = [taken |-> TRUE, snake |-> snake, food |-> food,
              sharesSnake |-> TRUE, sharesFood |-> TRUE]
  /\ emitted' = <<>>
  /\ last' = Op("getState")
  /\ Quiet
  /\ UNCHANGED <<engine, now, attempts, buffered>>

\* a consumer writes to what getState() gave it: state.snake.pop() or
\* state.food.x = 0
ConsumerWrites(what) ==
  /\ snap.taken
  /\ IF what = "pop"
     THEN /\ Len(snap.snake) > 1
          /\ LET shorter == SubSeq(snap.snake, 1, Len(snap.snake) - 1)
             IN /\ snap' = [snap EXCEPT !.snake = shorter]
                /\ snake' = IF snap.sharesSnake THEN shorter ELSE snake
          /\ UNCHANGED food
     ELSE /\ snap.food.x # 0
          /\ LET moved == Cell(0, snap.food.y)
             IN /\ snap' = [snap EXCEPT !.food = moved]
                /\ food' = IF snap.sharesFood THEN moved ELSE food
          /\ UNCHANGED snake
  /\ emitted' = <<>>
  /\ last' = Op("consumer")
  /\ Quiet
  /\ UNCHANGED <<cellSize, gridW, gridH, direction, nextDirection, score,
                 highScore, gameState, lastTickTime, currentTickMs, now, attempts,
                 buffered>>

----------------------------------------------------------------------------
(* Food placement on long snakes *)

SpawnLengths(gw, gh) ==
  {3, 4, gw * gh - 1, gw * gh} \cup {k * gw : k \in 1..SpawnRows}

\* the random sources tried on a path snake: the ones of ordinary play, the
\* walk along the path, and draws that all land on the head
SpawnStreams(s, gw, gh) ==
  Streams(gw, gh) \cup {WalkStream(gw, gh)} \cup {[first |-> s[1], rest |-> s[1]]}

\* an eating tick of a long game at the point where it calls spawnFood(): the
\* snake has grown onto the food cell, the score and the interval are updated
InitSpawn ==
  \E cw \in ClientWidths, ih \in InnerHeights :
    LET canvas == ResizeCanvas(cw, ih) IN
    \E n \in SpawnLengths(canvas.gridW, canvas.gridH) :
      LET s == PathSnake(n, canvas.gridW)
          d == IF s[1].y # s[2].y THEN "down"
               ELSE IF s[1].x > s[2].x THEN "right" ELSE "left"
      IN /\ cellSize = canvas.cellSize
         /\ gridW = canvas.gridW
         /\ gridH = canvas.gridH
         /\ highScore = 0
         /\ snake = s
         /\ direction = d
         /\ nextDirection = d
         /\ lastTickTime = 0
         /\ score = n - 3
         /\ currentTickMs = DifficultyInterval(n - 3)
         /\ food = s[1]
         /\ attempts = 0
         /\ gameState = "playing"
         /\ last = [op |-> "frame", dir |-> d, tick |-> "eating", seen |-> NoView]
         /\ Boot(0, "ok", "absent", FALSE)

\* the spawnFood() call of that tick
SpawnFoodCall ==
  /\ last.tick = "eating"
  /\ \E stream \in SpawnStreams(snake, gridW, gridH) :
       LET spawn == SpawnFood(snake, stream, gridW, gridH)
       IN food' = spawn.pos /\ attempts' = spawn.attempts
  /\ last' = [last EXCEPT !.tick = "eat"]
  /\ emitted' = <<Event("eat", score)>>
  /\ snap' = SnapAfter(snake, food', FALSE, TRUE)
  /\ Quiet
  /\ UNCHANGED <<cellSize, gridW, gridH, snake, direction, nextDirection, score,
                 highScore, gameState, lastTickTime, currentTickMs, now, buffered>>

----------------------------------------------------------------------------
(* Event listeners and effects *)

\* window.SnakeGame.on('eat', handler) and on('gameover', handler)
On(kind) ==
  /\ listener = "none"
  /\ listener' = kind
  /\ emitted' = <<>>
  /\ last' = Op("on")
  /\ failed' = FALSE
  /\ writes' = 0
  /\ UNCHANGED <<engine, now, attempts, buffered, snap, stored, storage, fxKind,
                 fx, controls, pendingDir, lastDir, rafPending>>

InitHooks ==
  \E cw \in StoreWidths, ih \in InnerHeights, fxk \in FxKinds :
    \E stream \in Streams(ResizeCanvas(cw, ih).gridW, ResizeCanvas(cw, ih).gridH) :
      Setup(cw, ih, 0, "ok", fxk, FALSE, stream)

InitFx ==
  \E cw \in StoreWidths, ih \in InnerHeights, fxk \in {"absent", "present"} :
    \E stream \in Streams(ResizeCanvas(cw, ih).gridW, ResizeCanvas(cw, ih).gridH) :
      Setup(cw, ih, 0, "ok", fxk, FALSE, stream)

\* the page on the 20x20 grid, nothing stored
InitOver ==
  \E cw \in StoreWidths, ih \in InnerHeights :
    \E stream \in Streams(ResizeCanvas(cw, ih).gridW, ResizeCanvas(cw, ih).gridH) :
      Setup(cw, ih, 0, "ok", "absent", FALSE, stream)

\* the lengths of the snake when the window is resized: just reset, one cell
\* from the right wall, and against it
ShrinkLengths(gw) == {3, gw - 1, gw}
\* where the food lies then: next to the left wall, and in the last column and
\* row of the grid
ShrinkFoods(gw, gh) == {Cell(0, 1), Cell(gw - 1, 1), Cell(gw - 1, gh - 1)}

\* a game in progress along the top row of the larger grid
InitShrink ==
  LET canvas == ResizeCanvas(0, 430) IN
  \E n \in ShrinkLengths(canvas.gridW), f \in ShrinkFoods(canvas.gridW, canvas.gridH) :
    /\ cellSize = canvas.cellSize
    /\ gridW = canvas.gridW
    /\ gridH = canvas.gridH
    /\ highScore = 0
    /\ snake = PathSnake(n, canvas.gridW)
    /\ direction = "right"
    /\ nextDirection = "right"
    /\ lastTickTime = 0
    /\ score = n - 3
    /\ currentTickMs = DifficultyInterval(n - 3)
    /\ food = f
    /\ attempts = 1
    /\ gameState = "playing"
    /\ last = Op("resume")
    /\ Boot(0, "ok", "absent", FALSE)

\* the page with controls.js loaded before setupGame() runs
InitInput ==
  \E cw \in StoreWidths, ih \in InnerHeights :
    \E stream \in Streams(ResizeCanvas(cw, ih).gridW, ResizeCanvas(cw, ih).gridH) :
      Setup(cw, ih, 0, "ok", "absent", TRUE, stream)

\* the lengths of the snake when the effects module comes into a game in
\* progress: short, around the trail limit, one cell and no cell from a wall
EffectLengths(gw) == {3, TRAIL_LIMIT - 1, TRAIL_LIMIT, TRAIL_LIMIT + 1, gw - 1, gw}

\* a game in progress along the top row, in which effects.js has just been
\* loaded
InitEffects ==
  \E cw \in StoreWidths, ih \in InnerHeights :
    LET canvas == ResizeCanvas(cw, ih) IN
    \E n \in EffectLengths(canvas.gridW) :
      /\ cellSize = canvas.cellSize
      /\ gridW = canvas.gridW
      /\ gridH = canvas.gridH
      /\ highScore = 0
      /\ snake = PathSnake(n, canvas.gridW)
      /\ direction = "right"
      /\ nextDirection = "right"
      /\ lastTickTime = 0
      /\ score = n - 3
      /\ currentTickMs = DifficultyInterval(n - 3)
      /\ food = PathCell(IF n + 2 <= canvas.gridW THEN n + 2 ELSE 2 * canvas.gridW,
                         canvas.gridW)
      /\ attempts = 1
      /\ gameState = "playing"
      /\ last = Op("resume")
      /\ Boot(0, "ok", "present", FALSE)

----------------------------------------------------------------------------
(* Page loads over the same localStorage *)

InitStore ==
  \E cw \in StoreWidths, ih \in InnerHeights, saved \in StoredScores,
     mode \in StorageModes :
    \E stream \in Streams(ResizeCanvas(cw, ih).gridW, ResizeCanvas(cw, ih).gridH) :
      Setup(cw, ih, saved, mode, "absent", FALSE, stream)

\* the page is loaded again after a game has ended: init() and setupGame() run
\* in a window of the same size, over what localStorage holds now
Reload ==
  /\ gameState = "gameover"
  /\ \E stream \in Streams(gridW, gridH) :
       LET spawn == ResetSpawn[<<gridW, gridH>>][stream]
       IN food' = spawn.pos /\ attempts' = spawn.attempts
  /\ highScore' = LoadHighScore(storage, stored)
  /\ snake' = ResetCells(gridW, gridH)
  /\ direction' = "right"
  /\ nextDirection' = "right"
  /\ lastTickTime' = 0
  /\ score' = 0
  /\ currentTickMs' = TICK_MS
  /\ gameState' = "start"
  /\ now' = 0
  /\ emitted' = <<>>
  /\ last' = Op("init")
  /\ fx' = FxIdle
  /\ pendingDir' = Null
  /\ lastDir' = IF controls THEN "right" ELSE Null
  /\ buffered' = Null
  /\ rafPending' = 1
  /\ snap' = NoSnap
  /\ failed' = FALSE
  /\ writes' = 0
  /\ listener' = "none"
  /\ UNCHANGED <<cellSize, gridW, gridH, stored, storage, fxKind, controls>>

Lifecycle ==
  \/ StartGame
  \/ PauseGame
  \/ ResumeGame
  \/ RestartGame

\* play around the centre of the grid
Next ==
  \/ Lifecycle
  \/ ResetSnake
  \/ \E dir \in Directions : SetDirection(dir)
  \/ Resize
  \/ Frame(MaxFrames, "box")

Spec == Init /\ [][Next]_vars

\* runs along the centre row and column, up to the walls
NextRun ==
  \/ Lifecycle
  \/ \E dir \in Directions : SetDirection(dir)
  \/ Resize
  \/ Frame(MaxRunFrames, "arms")

SpecRun == Init /\ [][NextRun]_vars

\* a score preset before the game starts, then play around the centre
NextApi ==
  \/ StartGame
  \/ ResetSnake
  \/ \E dir \in Directions : SetDirection(dir)
  \/ \E n \in 0..MaxPreset : SetScore(n)
  \/ Frame(MaxApiFrames, "box")

SpecApi == Init /\ [][NextApi]_vars

\* a consumer that takes snapshots and writes to them, during play around the centre
NextSnap ==
  \/ StartGame
  \/ GetState
  \/ \E what \in {"pop", "food"} : ConsumerWrites(what)
  \/ \E dir \in Directions : SetDirection(dir)
  \/ Frame(MaxSnapFrames, "box")

SpecSnap == Init /\ [][NextSnap]_vars

\* paint callbacks at uneven gaps, in every phase
NextPace ==
  \/ StartGame
  \/ PauseGame
  \/ ResumeGame
  \/ \E dir \in Directions : SetDirection(dir)
  \/ FrameOf(PaceGaps, {"start", "playing", "paused", "gameover"}, MaxPaceFrames,
             "box")

SpecPace == Init /\ [][NextPace]_vars

\* games played to their end along the centre row and column, with the score
\* preset before the start, restarted and reloaded, for every storage behaviour
NextStore ==
  \/ StartGame
  \/ RestartGame
  \/ Reload
  \/ \E dir \in Directions : SetDirection(dir)
  \/ \E n \in 0..MaxStorePreset : SetScore(n)
  \/ Frame(MaxStoreFrames, "arms")

SpecStore == InitStore /\ [][NextStore]_vars

\* play along the centre row and column with listeners registered and the
\* effects module loaded
NextHooks ==
  \/ StartGame
  \/ \E kind \in ListenerKinds : On(kind)
  \/ \E dir \in Directions : SetDirection(dir)
  \/ Frame(MaxHookFrames, "arms")

SpecHooks == InitHooks /\ [][NextHooks]_vars

\* the same play with the effects module loaded and without it, with frames at
\* two paces so that particles and shake are in many states
NextFx ==
  \/ StartGame
  \/ RestartGame
  \/ \E dir \in Directions : SetDirection(dir)
  \/ FrameOf(FxGaps, {"playing", "gameover"}, MaxFxFrames, "arms")

SpecFx == InitFx /\ [][NextFx]_vars

\* play around the centre in which every direction request goes through the
\* input adapter
NextInput ==
  \/ StartGame
  \/ PauseGame
  \/ ResumeGame
  \/ \E dir \in Directions : ApplyDirection(dir)
  \/ Frame(MaxInputFrames, "box")

SpecInput == InitInput /\ [][NextInput]_vars

\* frames at short, regular and long gaps in every phase, with the effects
\* module loaded and its random draws varying
NextEffects ==
  \/ PauseGame
  \/ ResumeGame
  \/ FrameWith(EffectGaps, {"playing", "paused", "gameover"}, MaxEffectFrames,
               "grid", FxRandoms)

SpecEffects == InitEffects /\ [][NextEffects]_vars

\* games played to their end, against a wall or against the snake's own body,
\* with the frames that follow the end and the restart
NextOver ==
  \/ StartGame
  \/ RestartGame
  \/ \E dir \in Directions : SetDirection(dir)
  \/ FrameOf(FrameGaps, {"playing", "gameover"}, MaxOverFrames, "cross")

SpecOver == InitOver /\ [][NextOver]_vars

\* a game with the effects module that is paused or ends and is then left
\* alone: callbacks keep coming, closer together and further apart than the cap
\* on the elapsed time
FramePlay == FrameWith(FadeGaps, {"playing"}, MaxFadePlay, "grid", {FxFixed})
FrameRest ==
  FrameWith(FadeGaps, {"paused", "gameover"}, MaxFadeFrames, "grid", {FxFixed})

NextFade ==
  \/ PauseGame
  \/ FramePlay
  \/ FrameRest

SpecFade == InitEffects /\ [][NextFade]_vars /\ WF_vars(FrameRest)

\* a game that is started and then left alone: paint callbacks keep coming, at
\* the pace of the ticks or three times as fast, and nothing else happens
FrameLive == FrameOf(LiveGaps, {"playing"}, MaxLiveFrames, "arms")

NextLive ==
  \/ StartGame
  \/ FrameLive

SpecLive == Init /\ [][NextLive]_vars /\ WF_vars(FrameLive)

\* play around the centre with the tab hidden and shown, the device turned and
\* the window made too narrow, in every phase
NextAuto ==
  \/ Lifecycle
  \/ \E dir \in Directions : SetDirection(dir)
  \/ \E hidden \in BOOLEAN : HandleVisibilityChange(hidden)
  \/ HandleOrientationChange
  \/ ResizeNarrow
  \/ Frame(MaxAutoFrames, "box")

SpecAuto == Init /\ [][NextAuto]_vars

\* paint callbacks in every phase, with every lifecycle command between them
NextIdle ==
  \/ Lifecycle
  \/ \E dir \in Directions : SetDirection(dir)
  \/ FrameOf(FrameGaps, {"start", "playing", "paused", "gameover"}, MaxIdleFrames,
             "box")

SpecIdle == Init /\ [][NextIdle]_vars

\* resizes between the two grids in the middle of a game whose snake and food
\* reach the last column and row
NextShrink ==
  \/ Resize
  \/ RestartGame
  \/ \E dir \in Directions : SetDirection(dir)
  \/ FrameOf(FrameGaps, {"playing", "paused", "gameover"}, MaxShrinkFrames, "grid")

SpecShrink == InitShrink /\ [][NextShrink]_vars

\* food placement on snakes of every length up to the whole grid, then play on
NextSpawn ==
  \/ SpawnFoodCall
  \/ \E dir \in Directions : SetDirection(dir)
  \/ Frame(MaxApiFrames, "arms")

SpecSpawn == InitSpawn /\ [][NextSpawn]_vars

----------------------------------------------------------------------------
(* Properties *)

\* a step of the render loop in which the tick fired
TickStep == now' # now /\ last'.tick # "none"

\* the cell one step from c in direction d, written out
StepFrom(c, d) ==
  [x |-> IF d = "right" THEN c.x + 1 ELSE IF d = "left" THEN c.x - 1 ELSE c.x,
   y |-> IF d = "down" THEN c.y + 1 ELSE IF d = "up" THEN c.y - 1 ELSE c.y]

Reverse(d) ==
  IF d = "up" THEN "down" ELSE IF d = "down" THEN "up"
  ELSE IF d = "left" THEN "right" ELSE "left"

Cells(s) == {s[i] : i \in 1..Len(s)}

\* C1: while the phase is not gameover the snake has at least one cell and no two
\* distinct indices of the snake hold the same cell.
C1_SnakeDistinct ==
  gameState # "gameover" =>
    /\ Len(snake) >= 1
    /\ \A i, j \in 1..Len(snake) : i # j => snake[i] # snake[j]

\* C2: no tick commits the opposite of the direction committed before it, whatever
\* setDirection calls were made since the last tick, and a setDirection with the
\* opposite of the committed direction leaves the pending direction unchanged.
C2_NoReversal ==
  [][/\ TickStep => direction' # Reverse(direction)
     /\ (last'.op = "setDirection" /\ last'.dir = Reverse(direction))
          => nextDirection' = nextDirection]_vars

\* a reversal was requested after another direction had been buffered
C2_Witness ==
  /\ gameState = "playing"
  /\ last.op = "setDirection"
  /\ last.dir = Reverse(direction)
  /\ nextDirection # direction

\* C3: a tick that does not end in gameover puts the new head one cell from the
\* old head along the direction it commits, which is the pending direction as it
\* stood when the tick began.
C3_HeadMoves ==
  [][(TickStep /\ last'.tick \in {"move", "eat"})
       => /\ direction' = nextDirection
          /\ snake'[1] = StepFrom(snake[1], direction')]_vars

C3_Witness ==
  /\ last.tick = "move"
  /\ direction = "up"
  /\ snake[1].y = snake[2].y - 1
  /\ snake[1].x = snake[2].x

C5_SelfCollision ==
  [][(TickStep /\ LET h == StepFrom(snake[1], nextDirection)
                  IN h.x >= 0 /\ h.x < gridW /\ h.y >= 0 /\ h.y < gridH)
       => LET h == StepFrom(snake[1], nextDirection) IN
          /\ gameState' = "gameover" <=> h \in Cells(snake)
          /\ h \in Cells(snake)
               => /\ emitted' = <<[type |-> "gameover", score |-> score]>>
                  /\ last'.tick = "self"]_vars

C5_Witness ==
  /\ last.tick = "self"
  /\ gameState = "gameover"
  /\ Len(snake) >= 4
  /\ StepFrom(snake[1], direction) \in Cells(snake)

\* C6 (as stated): a tick whose new head equals the food cell increases score by
\* exactly 1, makes the snake one cell longer (a non-eating tick leaves the length
\* unchanged) and, when a grid cell is free, puts the new food off the snake.
C6_AsStated ==
  [][TickStep =>
       LET h == StepFrom(snake[1], nextDirection) IN
       /\ h = food
            => /\ score' = score + 1
               /\ Len(snake') = Len(snake) + 1
               /\ Cardinality(Cells(snake')) < gridW * gridH
                    => food' \notin Cells(snake')
       /\ (h # food /\ gameState' # "gameover") => Len(snake') = Len(snake)]_vars

\* C6 (what the code does ensure): a tick that does not end in gameover and whose
\* new head equals the food cell increases score by exactly 1 and makes the snake
\* one cell longer (a non-eating tick leaves length and score unchanged); the new
\* food is off the post-growth snake unless all gridW x gridH draws landed on it.
C6_EatGrows ==
  [][(TickStep /\ gameState' # "gameover") =>
       LET h == StepFrom(snake[1], nextDirection) IN
       /\ h = food
            => /\ score' = score + 1
               /\ Len(snake') = Len(snake) + 1
               /\ food' \notin Cells(snake') \/ attempts' = gridW * gridH
       /\ h # food => Len(snake') = Len(snake) /\ score' = score]_vars

\* an eating tick whose first food draw was rejected and redrawn
C6_Witness ==
  /\ last.tick = "eat"
  /\ score = 1
  /\ Len(snake) = 4
  /\ food \notin Cells(snake)
  /\ attempts = 2

\* C7: after every eating tick the tick interval is max(60, 150 - floor(score/5)*10)
\* for the new score: 140 at score 5, 60 at score 45 and at every score above.
C7_Interval ==
  last.tick = "eat" =>
    /\ currentTickMs = IF 150 - (score \div 5) * 10 > 60
                       THEN 150 - (score \div 5) * 10 ELSE 60
    /\ score < 5 => currentTickMs = 150
    /\ score = 5 => currentTickMs = 140
    /\ score >= 45 => currentTickMs = 60
    /\ currentTickMs >= 60

C7_Witness ==
  /\ last.tick = "eat"
  /\ score = 45
  /\ currentTickMs = 60

C9_SetDirectionFrame ==
  [][last'.op = "setDirection" =>
       /\ direction' = direction
       /\ snake' = snake
       /\ score' = score
       /\ gameState' = gameState
       /\ gameState # "playing" => nextDirection' = nextDirection
       /\ gameState = "playing" =>
            nextDirection' = IF last'.dir = Reverse(direction)
                             THEN nextDirection ELSE last'.dir]_vars

\* a call while paused, with a direction that playing would have accepted
C9_Witness ==
  /\ last.op = "setDirection"
  /\ gameState = "paused"
  /\ last.dir # Reverse(direction)
  /\ last.dir # nextDirection

Canonical ==
  /\ snake = <<[x |-> gridW \div 2, y |-> gridH \div 2],
               [x |-> (gridW \div 2) - 1, y |-> gridH \div 2],
               [x |-> (gridW \div 2) - 2, y |-> gridH \div 2]>>
  /\ direction = "right"
  /\ nextDirection = "right"
  /\ score = 0
  /\ currentTickMs = 150

\* C10 (as stated): every reset yields the canonical starting state, with the food
\* on none of the three snake cells.
C10_AsStated ==
  last.op \in {"reset", "restart"} => Canonical /\ food \notin Cells(snake)

\* C10 (what the code does ensure): every reset, from any phase and also twice in
\* a row, yields the canonical starting state; the food is on none of the three
\* snake cells unless all gridW x gridH draws landed on the snake.
C10_ResetCanonical ==
  last.op \in {"reset", "restart"} =>
    /\ Canonical
    /\ food \notin Cells(snake) \/ attempts = gridW * gridH

\* a reset called in phase gameover, after a game that scored
C10_Witness ==
  /\ last.op = "reset"
  /\ gameState = "gameover"
  /\ highScore > 0

\* C11: a snapshot returned by getState is an immutable copy: a tick leaves the
\* snake and food shown by a snapshot taken before it unchanged, and a consumer's
\* write to the snake or food of its snapshot leaves the engine's snake and food
\* unchanged.
C11_SnapshotIsolated ==
  [][/\ (snap.taken /\ TickStep)
          => snap'.snake = snap.snake /\ snap'.food = snap.food
     /\ last'.op = "consumer" => snake' = snake /\ food' = food]_vars

\* C12: a paint callback runs the tick at most once, and exactly when the phase
\* is playing and timestamp - lastTickTime >= the current interval; a gap of
\* several intervals still moves the head by a single cell, and lastTickTime
\* becomes the timestamp in exactly the callbacks in which a tick fires.
C12_OneTickPerFrame ==
  [][now' # now =>
       LET due == gameState = "playing" /\ now' - lastTickTime >= currentTickMs
       IN /\ last'.tick # "none" <=> due
          /\ lastTickTime' = IF due THEN now' ELSE lastTickTime
          /\ Len(emitted') <= 1
          /\ last'.tick \in {"move", "eat"}
               => snake'[1] = StepFrom(snake[1], nextDirection)
          /\ last'.tick \in {"none", "wall", "self"} => snake' = snake]_vars

\* one callback three intervals after the start: the head has moved one cell
C12_Witness ==
  /\ last.tick = "move"
  /\ now = 450
  /\ lastTickTime = 450
  /\ snake = <<[x |-> (gridW \div 2) + 1, y |-> gridH \div 2],
               [x |-> gridW \div 2, y |-> gridH \div 2],
               [x |-> (gridW \div 2) - 1, y |-> gridH \div 2]>>

\* C13: food placement ends after at most gridW x gridH draws for every snake,
\* a snake that covers the whole grid included; it stops at the first drawn
\* cell that is not on the snake, and accepts the last drawn cell when every
\* draw landed on the snake; the food it leaves is a cell of the grid.
C13_SpawnTerminates ==
  last.tick = "eating" =>
  \A stream \in SpawnStreams(snake, gridW, gridH) :
    LET r == SpawnFood(snake, stream, gridW, gridH) IN
    /\ r.done
    /\ r.attempts \in 1..(gridW * gridH)
    /\ r.pos = Draw(stream, r.attempts)
    /\ \A i \in 1..(r.attempts - 1) : Draw(stream, i) \in Cells(snake)
    /\ r.attempts < gridW * gridH => r.pos \notin Cells(snake)
    /\ r.pos.x \in 0..(gridW - 1) /\ r.pos.y \in 0..(gridH - 1)

\* food placed on a snake that covers the whole grid
C13_Witness ==
  /\ last.tick = "eat"
  /\ Len(snake) = gridW * gridH
  /\ Cardinality(Cells(snake)) = gridW * gridH
  /\ attempts = gridW * gridH
  /\ food \in Cells(snake)

GameOverStep == gameState # "gameover" /\ gameState' = "gameover"

\* C14: over games, restarts and page loads the high score never decreases (a
\* page load over a storage that rejects writes starts again from what is
\* stored); storage is written only on a gameover transition whose score is
\* strictly greater than the stored value, once, and after every gameover
\* transition highScore >= score.
C14_HighScoreMonotone ==
  [][/\ (last'.op # "init" \/ storage = "ok") => highScore' >= highScore
     /\ last'.op = "init" => highScore' = LoadHighScore(storage, stored)
     /\ stored' >= stored
     /\ writes' > 0 => /\ GameOverStep
                       /\ score' > stored
                       /\ writes' = 1
                       /\ stored' = score'
     /\ stored' # stored => writes' > 0
     /\ GameOverStep => highScore' >= score']_vars

\* the second game of a page load has ended below the high score the first
\* game had written
C14_Witness ==
  /\ last.tick = "wall"
  /\ gameState = "gameover"
  /\ storage = "ok"
  /\ writes = 0
  /\ stored = 2
  /\ highScore = 2
  /\ score = 0
  /\ now > 11 * TICK_MS

\* C15: when localStorage cannot be read at init, init ends in phase start with
\* high score 0; when it cannot be written at gameover, the gameover transition
\* completes without an exception, the stored value stays and the high score in
\* memory is raised to the score.
C15_StorageFailuresCaught ==
  [][/\ (last'.op = "init" /\ storage = "disabled")
          => gameState' = "start" /\ highScore' = 0 /\ ~failed'
     /\ (GameOverStep /\ storage # "ok")
          => /\ ~failed'
             /\ last'.tick \in {"wall", "self"}
             /\ emitted' = <<Event("gameover", score)>>
             /\ highScore' = Max(highScore, score)
             /\ stored' = stored
             /\ rafPending' = 1]_vars

\* a game ended with a new high score that could not be written
C15_Witness ==
  /\ gameState = "gameover"
  /\ storage = "quota"
  /\ stored = 1
  /\ highScore = 2
  /\ score = 2
  /\ ~failed

\* C16: an exception thrown by the effects module or by a registered listener
\* never stops the game: an eating tick still places new food, a colliding tick
\* still ends with the high score raised to the score, and the paint callback
\* stays scheduled so that later ticks fire.
C16_FaultsIsolated ==
  [][/\ last'.tick = "eat"
          => \E stream \in Streams(gridW, gridH) :
               LET spawn == SpawnFood(snake', stream, gridW, gridH)
               IN food' = spawn.pos /\ attempts' = spawn.attempts
     /\ GameOverStep => highScore' >= score'
     /\ now' # now => rafPending' = 1]_vars

\* C17: renderLoop schedules its next invocation before it ticks or paints, so
\* after every frame, one whose tick or paint threw included, exactly one
\* invocation is pending.
C17_OnePending == rafPending = 1

\* a frame whose paint threw, after a frame whose eating tick threw
C17_Witness ==
  /\ last.tick = "move"
  /\ fxKind = "faulty"
  /\ failed
  /\ score = 1
  /\ food = snake[2]
  /\ rafPending = 1

\* C18: what a frame does to the engine (snake, food, score, phase, committed
\* and pending direction, tick interval, tick time, high score) is what it does
\* when no effects module is loaded, for the same timestamp and food draws,
\* whether the module is loaded or not and whatever its particles and shake are;
\* no other operation reads the effects at all.
C18_EffectsDoNotInterfere ==
  [][now' # now =>
       LET due == TickDue(now') IN
       \E stream \in Streams(gridW, gridH) :
         LET t == IF due THEN GameTickOf("none", "absent", FxIdle, stream)
                  ELSE NoTick
         IN /\ snake' = t.snake
            /\ food' = t.food
            /\ score' = t.score
            /\ gameState' = t.gameState
            /\ currentTickMs' = t.currentTickMs
            /\ highScore' = t.highScore
            /\ direction' = IF due THEN nextDirection ELSE direction
            /\ nextDirection' = nextDirection
            /\ lastTickTime' = IF due THEN now' ELSE lastTickTime]_vars

\* an eating tick with the effects module loaded, while particles of the trail
\* are alive: the burst of the eat event is added to them
C18_Witness ==
  /\ fxKind = "present"
  /\ last.tick = "eat"
  /\ Len(fx.particles) >= 3
  /\ \E i \in DOMAIN fx.particles : fx.particles[i].life > TRAIL_LIFE_MS

\* C19: while playing, the input adapter rejects a requested direction exactly
\* when it is the opposite of the reference direction: the direction buffered
\* since the last commit if there is one, else the committed direction; outside
\* playing every request is ignored.
C19_AdapterReference ==
  [][last'.op = "applyDirection" =>
       LET ref == IF buffered # Null THEN buffered ELSE direction
           rejected == pendingDir' # last'.dir
       IN IF gameState = "playing"
          THEN rejected <=> last'.dir = Opposite(ref)
          ELSE pendingDir' = pendingDir /\ nextDirection' = nextDirection]_vars

\* C20: every direction the input adapter accepts is accepted by the engine:
\* after each accepted request the adapter's buffered direction equals the
\* engine's pending direction.
C20_AdapterStricter ==
  [][(last'.op = "applyDirection" /\ pendingDir' = last'.dir)
       => nextDirection' = pendingDir']_vars

\* the phase changes of the engine, each with the operation that makes it
PhaseChanges ==
  {<<"start", "playing", "start">>,
   <<"playing", "paused", "pause">>,
   <<"playing", "paused", "resize">>,
   <<"paused", "playing", "resume">>,
   <<"playing", "gameover", "frame">>,
   <<"gameover", "playing", "restart">>}

\* C21: the phase changes only by start -> playing (start), playing -> paused
\* (pause), paused -> playing (resume), playing -> gameover (a colliding tick)
\* and gameover -> playing (restart); in every phase one of them can be taken,
\* and a restart yields phase playing with the 3-cell snake, score 0 and
\* direction right.
C21_PhaseCycle ==
  [][/\ gameState' # gameState
          => /\ <<gameState, gameState', last'.op>> \in PhaseChanges
             /\ gameState' = "gameover" => last'.tick \in {"wall", "self"}
     /\ gameState = "start" => ENABLED StartGame
     /\ gameState = "playing" => ENABLED PauseGame
     /\ gameState = "paused" => ENABLED ResumeGame
     /\ gameState = "gameover" => ENABLED RestartGame
     /\ last'.op = "restart"
          => /\ gameState = "gameover" /\ gameState' = "playing"
             /\ snake' = ResetCells(gridW, gridH)
             /\ score' = 0
             /\ direction' = "right" /\ nextDirection' = "right"]_vars

\* a second game, started by a restart, is being played
C21_Witness ==
  /\ gameState = "playing"
  /\ last.tick = "move"
  /\ now > 11 * TICK_MS
  /\ Len(snake) = 3
  /\ score = 0
  /\ snake[1].x = (gridW \div 2) + 1

\* C22 (as stated): the shake offset is (0,0) in every frame at or after the
\* point where the time elapsed on the clock since the gameover event reaches
\* the shake duration, whatever the frame timestamps are.
C22_AsStated ==
  (fx.shakeAt > 0 /\ now - fx.shakeAt >= fx.shakeDuration)
    => fx.shakeX = 0 /\ fx.shakeY = 0

\* C22: the shake offset is (0,0) in every frame at or after the one in which
\* the elapsed time applied to the shake since the gameover event (the capped
\* elapsed time of each frame, summed from the frame of the event on) reaches
\* the shake duration; before that its magnitude on each axis is at most
\* amplitude x remaining / duration.
C22_ShakeEnds ==
  LET remaining == Max(0, fx.shakeDuration - fx.shakeElapsed)
      most == RandomSteps * fx.shakeAmplitude * remaining
  IN /\ fx.shakeElapsed >= fx.shakeDuration => fx.shakeX = 0 /\ fx.shakeY = 0
     /\ Abs(fx.shakeX) <= most
     /\ Abs(fx.shakeY) <= most
     /\ fx.shakeAt > 0 => fx.shake = remaining
     /\ fx.shakeAt = 0 => fx.shakeX = 0 /\ fx.shakeY = 0

\* the shake has run out after a long gap between two frames, later than the
\* clock alone would have ended it
C22_Witness ==
  /\ gameState = "gameover"
  /\ fx.shakeAt > 0
  /\ fx.shakeElapsed = SHAKE_MS
  /\ fx.shake = 0
  /\ fx.shakeX = 0 /\ fx.shakeY = 0
  /\ fx.dt = TICK_MS
  /\ now - fx.shakeAt > SHAKE_MS + 2 * DT_CAP_MS

\* C23: the elapsed time a frame applies to the particles (those of the burst
\* of the frame's own eat event included), the shake and the trail accumulator
\* is min(timestamp - previous timestamp, 200), and 0 in the first frame; it
\* always lies in 0..200.
C23_ElapsedClamped ==
  [][(now' # now /\ fxKind = "present") =>
       LET dt == IF fx.lastTimestamp > 0
                 THEN Min(now' - fx.lastTimestamp, DT_CAP_MS) ELSE 0
       IN /\ fx'.dt = dt
          /\ dt \in 0..DT_CAP_MS
          /\ fx'.lastTimestamp = now'
          /\ fx.shake > 0 => fx'.shake = Max(0, fx.shake - dt)
          /\ fx'.trailTimer \in {0, fx.trailTimer + dt}
          /\ \A i \in DOMAIN fx'.particles :
               fx'.particles[i].updated
                 => \/ \E j \in DOMAIN fx.particles :
                         fx'.particles[i] =
                           [fx.particles[j] EXCEPT !.life = @ - dt, !.updated = TRUE]
                    \/ /\ last'.tick = "eat"
                       /\ fx'.particles[i].kind = "burst"
                       /\ fx'.particles[i].life = fx'.particles[i].maxLife - dt]_vars

\* a frame one second after the previous one has aged live particles by 200 ms
C23_Witness ==
  /\ fx.dt = DT_CAP_MS
  /\ fx.lastTimestamp = now
  /\ now >= 1000 + TICK_MS
  /\ \E i \in DOMAIN fx.particles : fx.particles[i].updated

\* C24: trail particles are emitted only in a frame in which the phase is
\* playing and the snake has more than one cell, and in which the accumulated
\* frame time reaches 100 ms; the accumulator is 0 after every frame in which
\* that condition does not hold; one emission draws from min(length - 1, 7)
\* body segments, never from the head.
C24_TrailEmission ==
  [][(now' # now /\ fxKind = "present") =>
       LET trailing == gameState' = "playing" /\ Len(snake') > 1 IN
       /\ fx'.emitted > 0
            => /\ trailing
               /\ fx.trailTimer + fx'.dt >= TRAIL_EVERY_MS
               /\ fx'.trailTimer = 0
               /\ fx'.emitted = Min(Len(snake') - 1, 7)
       /\ ~trailing => fx'.trailTimer = 0
       /\ \A i \in DOMAIN fx'.particles :
            (fx'.particles[i].kind = "trail" /\ ~fx'.particles[i].updated)
              => \E j \in 2..Len(snake') :
                   /\ fx'.particles[i].x2 = 2 * snake'[j].x * cellSize + cellSize
                   /\ fx'.particles[i].y2 = 2 * snake'[j].y * cellSize + cellSize]_vars

\* C24 (what the code does ensure): the same, with an emission drawing from
\* min(length, 7) - 1 body segments, that is at most 6.
C24_TrailAsCoded ==
  [][(now' # now /\ fxKind = "present") =>
       LET trailing == gameState' = "playing" /\ Len(snake') > 1 IN
       /\ fx'.emitted > 0
            => /\ trailing
               /\ fx.trailTimer + fx'.dt >= TRAIL_EVERY_MS
               /\ fx'.trailTimer = 0
               /\ fx'.emitted = Min(Len(snake'), TRAIL_LIMIT) - 1
       /\ ~trailing => fx'.trailTimer = 0
       /\ \A i \in DOMAIN fx'.particles :
            (fx'.particles[i].kind = "trail" /\ ~fx'.particles[i].updated)
              => \E j \in 2..Min(Len(snake'), TRAIL_LIMIT) :
                   /\ fx'.particles[i].x2 = 2 * snake'[j].x * cellSize + cellSize
                   /\ fx'.particles[i].y2 = 2 * snake'[j].y * cellSize + cellSize]_vars

\* an emission from a snake of nine cells
C24_Witness ==
  /\ gameState = "playing"
  /\ Len(snake) = 9
  /\ fx.emitted = 6
  /\ Len(SelectSeq(fx.particles, LAMBDA p : p.kind = "trail" /\ ~p.updated)) = 12

\* the particles of bursts among ps
Bursts(ps) == SelectSeq(ps, LAMBDA p : p.kind = "burst")

\* C25: an eat event adds exactly 18 particles, all at the pixel centre of the
\* head as it is when the event is delivered, which is the cell where the food
\* was eaten; a gameover event adds no particle and an eat event starts no
\* shake.
C25_BurstOnEat ==
  [][(now' # now /\ fxKind = "present") =>
       LET dt == fx'.dt
           kept == Len(SelectSeq(Bursts(fx.particles), LAMBDA p : p.life - dt > 0))
           after == Bursts(fx'.particles)
       IN /\ Len(after) = kept + (IF last'.tick = "eat" THEN 18 ELSE 0)
          /\ last'.tick = "eat"
               => /\ \A i \in (kept + 1)..(kept + 18) :
                       /\ after[i].x2 = 2 * food.x * cellSize + cellSize
                       /\ after[i].y2 = 2 * food.y * cellSize + cellSize
                       /\ after[i].x2 = 2 * snake'[1].x * cellSize + cellSize
                       /\ after[i].y2 = 2 * snake'[1].y * cellSize + cellSize
                  /\ fx'.shakeAt = fx.shakeAt
                  /\ fx'.shake = Max(0, fx.shake - dt)
          /\ GameOverStep
               => /\ Len(fx'.particles) <= Len(fx.particles)
                  /\ fx'.shakeAt = now']_vars

\* a burst at the cell where the food was
C25_Witness ==
  /\ last.tick = "eat"
  /\ fxKind = "present"
  /\ Len(Bursts(fx.particles)) = 18
  /\ \A i \in 1..18 :
       Bursts(fx.particles)[i].x2 = 2 * snake[1].x * cellSize + cellSize
  /\ fx.shakeAt = 0

\* C26: after the update step of a frame no particle that was updated in it
\* has a lifetime <= 0, so every particle the overlay call draws has a
\* lifetime > 0; an update lowers a particle's lifetime by exactly the frame's
\* clamped elapsed time, and the particles that stay alive are all kept, in
\* their order.
C26_SpentParticlesPruned ==
  [][(now' # now /\ fxKind = "present") =>
       LET dt == fx'.dt
           updated == SelectSeq(fx'.particles, LAMBDA p : p.updated)
           before == SelectSeq(fx.particles, LAMBDA p : p.life - dt > 0)
       IN /\ \A i \in DOMAIN fx'.particles : fx'.particles[i].life > 0
          /\ Len(updated) >= Len(before)
          /\ \A i \in DOMAIN before :
               updated[i] = [before[i] EXCEPT !.life = @ - dt, !.updated = TRUE]]_vars

\* particles whose lifetime reached exactly 0 have just been dropped
C26_Witness ==
  /\ fxKind = "present"
  /\ fx.dt = TICK_MS
  /\ last.tick = "move"
  /\ fx.log # <<>>
  /\ Bursts(fx.particles) = <<>>
  /\ score = 1
  /\ now = lastTickTime
  /\ \E i \in DOMAIN fx.particles : fx.particles[i].updated

\* C27: in every frame the effects module is called for the background, then
\* the food and the snake are drawn, then it is called for the overlay; the
\* background call saves the drawing context once and applies the shake
\* translation, the overlay call restores it once, so after the frame the save
\* depth and the translation are what they were before it, and the food, the
\* snake and the overlay particles are drawn under the same shake offset.
C27_PaintOrder ==
  /\ fx.ctx = CtxIdle
  /\ (fxKind = "present" /\ fx.lastTimestamp > 0)
       => /\ Len(fx.log) = 4
          /\ [i \in 1..4 |-> fx.log[i].what]
               = <<"background", "food", "snake", "particles">>
          /\ \A i \in 1..4 : fx.log[i].shift = <<fx.shakeX, fx.shakeY>>

\* a frame painted while the screen shakes
C27_Witness ==
  /\ gameState = "gameover"
  /\ fx.shake > 0
  /\ fx.shakeX # 0
  /\ Len(fx.log) = 4
  /\ fx.log[2].shift = <<fx.shakeX, fx.shakeY>>
  /\ fx.ctx.depth = 0

\* C28: on an eating tick the eat event is delivered after the unshift, the
\* score increment and the interval recomputation and before spawnFood(): the
\* state a handler reads has the grown snake, the incremented score that the
\* payload carries, the new interval, and the old food cell, which is the head;
\* the food is drawn only afterwards, against the grown snake, and not at all
\* when an exception ended the tick
C28_EatOrder ==
  [][last'.tick = "eat" =>
       LET seen == last'.seen IN
       /\ emitted' = <<Event("eat", score + 1)>>
       /\ seen.score = score + 1 /\ score' = seen.score
       /\ seen.currentTickMs = DifficultyInterval(score + 1)
       /\ currentTickMs' = seen.currentTickMs
       /\ Len(seen.snake) = Len(snake) + 1
       /\ SubSeq(seen.snake, 2, Len(seen.snake)) = snake
       /\ seen.food = food /\ seen.snake[1] = seen.food
       /\ snake' = seen.snake
       /\ IF failed' THEN food' = seen.food /\ attempts' = attempts
          ELSE /\ attempts' >= 1
               /\ attempts' < gridW * gridH => ~IsOnSnake(seen.snake, food')]_vars

C28_Witness ==
  /\ last.tick = "eat" /\ listener = "ok" /\ ~failed
  /\ last.seen.score = score /\ score >= 1
  /\ last.seen.food = snake[1] /\ food # snake[1]
  /\ last.seen.snake = snake


\* C29: a tick that ends in gameover, by the wall or by the body, leaves the
\* snake, the food, the score and the tick interval as they were and emits exactly
\* one gameover event, carrying that score, to handlers that see that same state;
\* from then on frames run no tick, no event is emitted and snake, food, score
\* and interval are not touched by a frame, and only a restart leaves the phase
C29_GameOverFreezes ==
  [][/\ (TickStep /\ gameState' = "gameover")
          => /\ gameState = "playing"
             /\ last'.tick \in {"wall", "self"}
             /\ snake' = snake /\ food' = food
             /\ score' = score /\ currentTickMs' = currentTickMs
             /\ emitted' = <<Event("gameover", score)>>
             /\ last'.seen = View(snake, food, score, currentTickMs, "gameover")
     /\ gameState = "gameover"
          => /\ last'.tick \in {"-", "none"}
             /\ emitted' = <<>>
             /\ last'.op = "frame"
                  => /\ snake' = snake /\ food' = food /\ score' = score
                     /\ currentTickMs' = currentTickMs
                     /\ lastTickTime' = lastTickTime
             /\ gameState' # "gameover"
                  => last'.op = "restart" /\ gameState' = "playing"]_vars

\* a frame that came due after a collision with the body and ran no tick
C29_Witness ==
  /\ gameState = "gameover" /\ last.op = "frame" /\ last.tick = "none"
  /\ now - lastTickTime >= currentTickMs
  /\ IsOnSnake(snake, Translate(snake[1], direction))
  /\ emitted = <<>> /\ score >= 1


\* C30: the body check of a tick compares the new head with every cell the
\* snake holds before the move, the tail included: a tick whose new head is the
\* cell of the tail ends in gameover as a collision with the body, with the snake
\* left in place, although dropping the tail first would have freed that cell
C30_TailCollides ==
  [][(TickStep /\ StepFrom(snake[1], nextDirection) = snake[Len(snake)])
       => /\ gameState' = "gameover"
          /\ last'.tick = "self"
          /\ emitted' = <<Event("gameover", score)>>
          /\ snake' = snake /\ score' = score]_vars

\* the tick that ran the head into the tail, the only cell of the body it met,
\* with the food elsewhere
C30_Witness ==
  /\ last.tick = "self" /\ gameState = "gameover"
  /\ Len(snake) >= 4
  /\ StepFrom(snake[1], direction) = snake[Len(snake)]
  /\ \A i \in 1..(Len(snake) - 1) : snake[i] # snake[Len(snake)]
  /\ food # snake[Len(snake)]


\* C31: a tick that neither eats nor collides leaves the new head followed by
\* the old snake without its last cell, so that every segment takes the place of
\* the one ahead of it; an eating tick leaves the new head followed by the whole
\* old snake
C31_BodyFollows ==
  [][TickStep =>
       LET h == StepFrom(snake[1], nextDirection)
           free == /\ h.x >= 0 /\ h.x < gridW /\ h.y >= 0 /\ h.y < gridH
                   /\ h \notin Cells(snake)
       IN
       /\ last'.tick = "move" <=> (free /\ h # food)
       /\ last'.tick = "eat" <=> (free /\ h = food)
       /\ last'.tick = "move"
            => /\ Len(snake') = Len(snake)
               /\ snake'[1] = h
               /\ \A i \in 2..Len(snake) : snake'[i] = snake[i - 1]
       /\ last'.tick = "eat"
            => /\ Len(snake') = Len(snake) + 1
               /\ snake'[1] = h
               /\ \A i \in 1..Len(snake) : snake'[i + 1] = snake[i]]_vars

\* a snake that has eaten and then moved on around a corner
C31_Witness ==
  /\ last.tick = "move" /\ score >= 1 /\ Len(snake) >= 4
  /\ snake[1].x # snake[3].x /\ snake[1].y # snake[3].y


C33_AsStated ==
  [][last'.op \in {"start", "resume"}
       => \A gap \in PaceGaps :
            (gameState' = "playing" /\ (now + gap) - lastTickTime' >= currentTickMs')
              => (now + gap) - lastTickTime >= currentTickMs]_vars

\* C33 (as coded): ticks of an unbroken stretch of play are at least the current
\* interval apart; startGame and resumeGame set lastTickTime to 0, so after them
\* the tick is due in the first callback whose timestamp is at least the interval
C33_ResumeForgetsLastTick ==
  [][/\ (TickStep /\ lastTickTime # 0) => now' - lastTickTime >= currentTickMs
     /\ last'.op \in {"start", "resume"}
          => /\ lastTickTime' = 0
             /\ \A gap \in PaceGaps :
                  (now + gap) - lastTickTime' >= currentTickMs' <=> now + gap >= currentTickMs]_vars

\* two ticks, the second 50 ms after the first: the head is two cells from
\* where the reset put it before two intervals of timestamp time have passed
C33_Witness ==
  /\ last.tick = "move" /\ score = 0 /\ currentTickMs = TICK_MS
  /\ now < 2 * TICK_MS
  /\ snake[1].x = ResetCells(gridW, gridH)[1].x + 1
  /\ snake[1].y = ResetCells(gridW, gridH)[1].y - 1

\* C34: when the score is changed by resets and ticks only, the score is the
\* length of the snake less the three cells of a reset, it is never negative,
\* a tick raises it by one or leaves it, and only a restart or reset lowers it
C34_ScoreIsGrowth ==
  [][/\ score = Len(snake) - 3 /\ score >= 0
     /\ score' = Len(snake') - 3 /\ score' >= 0
     /\ last'.op \in {"restart", "reset"} => score' = 0 /\ Len(snake') = 3
     /\ last'.op \notin {"restart", "reset"}
          => /\ score' >= score
             /\ score' # score => last'.tick = "eat" /\ score' = score + 1]_vars

\* two foods eaten since the reset, then a tick that ended the game
C34_Witness ==
  /\ score = 2 /\ Len(snake) = 5
  /\ gameState = "gameover"


\* C35: in every state every cell of the snake and the food cell lie inside the
\* grid, 0 <= x < gridW and 0 <= y < gridH, also right after a resize that made
\* the grid smaller
C35_InsideGrid ==
  /\ \A i \in 1..Len(snake) :
       /\ 0 <= snake[i].x /\ snake[i].x < gridW
       /\ 0 <= snake[i].y /\ snake[i].y < gridH
  /\ 0 <= food.x /\ food.x < gridW
  /\ 0 <= food.y /\ food.y < gridH

\* after a resize to the smaller grid: the head and the food were both in the
\* last column of the larger one and are in the last column of this one
C35_Witness ==
  /\ last.op = "resize" /\ gridW = 20
  /\ snake[1].x = gridW - 1 /\ snake[2].x = gridW - 1
  /\ food.x = gridW - 1 /\ food.y = gridH - 1


\* C36: in a game whose snake is written by resets and ticks only, every two
\* consecutive segments are neighbours along a row or a column: their Manhattan
\* distance is exactly 1
C36_SegmentsAdjacent ==
  \A i \in 1..(Len(snake) - 1) :
    Abs(snake[i].x - snake[i + 1].x) + Abs(snake[i].y - snake[i + 1].y) = 1

\* a snake of five cells bent twice
C36_Witness ==
  /\ Len(snake) >= 5 /\ last.tick = "move"
  /\ snake[1].x # snake[3].x /\ snake[1].y # snake[3].y
  /\ snake[3].x # snake[5].x /\ snake[3].y # snake[5].y


\* C37: a paint callback that arrives in phase start, paused or gameover runs
\* no tick and leaves the snake, the food, the score, both directions, the tick
\* interval, the time of the last tick and the phase as they are, however long
\* the game has been waiting; a tick runs only from phase playing, and the phase
\* becomes playing only by a start, a resume or a restart
C37_IdleFramesChangeNothing ==
  [][/\ (now' # now /\ gameState \in {"start", "paused", "gameover"})
          => /\ last'.tick = "none" /\ emitted' = <<>>
             /\ snake' = snake /\ food' = food /\ score' = score
             /\ direction' = direction /\ nextDirection' = nextDirection
             /\ currentTickMs' = currentTickMs
             /\ lastTickTime' = lastTickTime
             /\ gameState' = gameState
     /\ last'.tick \in {"move", "eat", "wall", "self"}
          => gameState = "playing" /\ last'.op = "frame"
     /\ (gameState # "playing" /\ gameState' = "playing")
          => last'.op \in {"start", "resume", "restart"}]_vars

\* a callback in phase paused that came a full interval after the last tick of
\* a snake that had moved
C37_Witness ==
  /\ gameState = "paused" /\ last.op = "frame" /\ last.tick = "none"
  /\ lastTickTime > 0 /\ now - lastTickTime >= currentTickMs
  /\ snake[1] # ResetCells(gridW, gridH)[1]


\* C38: when paint callbacks keep coming and nothing else happens, a game that
\* is playing reaches gameover; from the reset state that is the tick that
\* finds the head in the last column, the (gridW - floor(gridW / 2))-th tick
C38_LeftAloneEnds ==
  (gameState = "playing")
    ~> (gameState = "gameover" /\ last.tick = "wall"
        /\ snake[1].x - (gridW \div 2) + 1 = gridW - (gridW \div 2))

\* the game has ended against the right wall after callbacks at both paces
C38_Witness ==
  /\ gameState = "gameover" /\ last.tick = "wall"
  /\ snake[1].x = gridW - 1 /\ snake[1].y = gridH \div 2
  /\ now > (gridW - (gridW \div 2)) * TICK_MS


\* C39: once the phase is not playing, so that neither trail nor burst is
\* emitted any more, and callbacks keep coming with growing timestamps, the
\* particles run out and none comes back, and a shake that was started runs
\* down to a remaining time of 0 with no offset left
C39_EffectsFade ==
  (gameState # "playing")
    ~> [](/\ fx.particles = <<>>
          /\ fx.shake = 0 /\ fx.shakeX = 0 /\ fx.shakeY = 0)

\* the game has ended with trail particles alive and the shake running, and a
\* callback has come since
C39_Witness ==
  /\ gameState = "gameover" /\ last.tick = "none"
  /\ fx.shake > 0 /\ fx.shake < SHAKE_MS
  /\ fx.particles # <<>>


\* C40: the tab being hidden, an orientation change and a resize to less than
\* the minimum width take the phase from playing to paused and leave every
\* other phase as it is; the phase becomes playing only by a start, a resume or
\* a restart, so neither they nor the tab being shown again resume the game;
\* and no pause, automatic or by key, changes the snake, the food, the score,
\* the committed or the pending direction
C40_AutoPause ==
  [][/\ last'.op \in {"hidden", "orientation", "resize"}
          => gameState' = IF gameState = "playing" THEN "paused" ELSE gameState
     /\ last'.op = "visible" => gameState' = gameState
     /\ (gameState # "playing" /\ gameState' = "playing")
          => last'.op \in {"start", "resume", "restart"}
     /\ last'.op \in {"hidden", "visible", "orientation", "resize", "pause"}
          => /\ snake' = snake /\ food' = food /\ score' = score
             /\ direction' = direction /\ nextDirection' = nextDirection
             /\ currentTickMs' = currentTickMs /\ lastTickTime' = lastTickTime
             /\ gridW' = gridW /\ gridH' = gridH]_vars

\* the tab is shown again after it was hidden in the middle of a turn: the game
\* is still paused
C40_Witness ==
  /\ last.op = "visible" /\ gameState = "paused"
  /\ nextDirection # direction
  /\ snake[1] # ResetCells(gridW, gridH)[1]


====
